---- MODULE Spec2Model ----
(***************************************************************************)
(* Verification model of the Ogent execution services.                     *)
(*                                                                         *)
(*  - langchain-agent AgentService: start_execution, the background run    *)
(*    task _execute_agent, cancel_execution, the execution repository and  *)
(*    the per-execution stream queue (specification Spec).                 *)
(*  - command-execution service: is_command_allowed, POST /api/execute,    *)
(*    the execution thread execute_command_task, the cancel and status     *)
(*    endpoints (specifications CmdSpec, CmdFairSpec).                     *)
(*  - is_command_allowed as a pure function over command texts             *)
(*    (specification AllowSpec).                                           *)
(*  - the allow-list checks of the agent tools as pure functions:          *)
(*    _is_command_allowed of app_backup, BaseAgent._can_execute_command    *)
(*    and the allow-list step of CommandTool._arun (specification          *)
(*    ListSpec).                                                           *)
(*  - GET /api/execution/<id> of the command-execution service beside the  *)
(*    execution thread and the cancel requests (specification CmdGetSpec). *)
(*  - execution streaming of app_backup: execute_agent publishing with     *)
(*    send_execution_event and the stream_execution websocket handlers     *)
(*    (specifications HubSpec, HubFairSpec; HubCancelSpec adds a           *)
(*    concurrent cancel_execution).                                        *)
(*  - AgentService.execute_agent, which starts an execution and polls it   *)
(*    until it ends or max_wait_time has passed (specification WaitSpec).  *)
(*  - ExecutionService._execute_agent of the domain layer (specification   *)
(*    EsSpec).                                                             *)
(*  - CommandAgent._validate_command against a command service that may    *)
(*    fail or be unreachable (specification ValSpec).                      *)
(*  - ConnectionManager of the websocket endpoints (specification          *)
(*    MgrSpec).                                                            *)
(*                                                                         *)
(* One execution id is modelled per service; every claim is per execution. *)
(* Each action follows the control flow of the function it models.  Calls  *)
(* between components are modelled by the contract the caller uses: the    *)
(* repository stores the fields the service passes to update_status.       *)
(* Every await on the repository or on the command service is a suspension *)
(* point of the asyncio task, so it is an action boundary; synchronous     *)
(* code between two awaits is one atomic action.                           *)
(***************************************************************************)
EXTENDS Integers, Sequences, FiniteSets, TLC

\* ---------------------------------------------------------------- bounds
MaxCancels == 2
MaxIterations == 1
MaxCmdLen == 6
MaxLines == 1
MaxClock == 2
MaxCsCancels == 2

\* --------------------------------------------------------------- values
None == "None"
Cancellers == 1..MaxCancels

\* the cancel_execution call made by execute_agent itself, beside the
\* external ones
TimeoutCaller == 0
Callers == Cancellers \cup {TimeoutCaller}

ExecutionStatus == {"pending", "running", "completed", "failed", "canceled"}
TerminalStatus == {"completed", "failed", "canceled"}
AgentTypes == {"command", "conversational", "unsupported"}

VARIABLES
    \* ---- langchain-agent service
    agentRow,              \* the agent row exists in the agent repository
    agentType,             \* agent.agent_type
    permExecute,           \* agent.permissions.execute_commands
    execution,             \* the persisted execution row
    steps,                 \* persisted ExecutionStep rows (step types), in order
    commands,              \* persisted Command rows (statuses), in order
    streaming,             \* the streaming argument of start_execution
    streaming_executions,  \* execution_id in self._streaming_executions
    queue,                 \* every item put on the execution's asyncio.Queue
    runPc,                 \* position of the _execute_agent task
    runExecution,          \* its local variable `execution`
    runResult,             \* the AgentResult of agent.run
    iterations,            \* iterations of the conversational agent executor
    cmdInFlight,           \* a command of this run is executing at the command service
    commandCancelCalls,    \* calls of CommandClient.cancel_execution
    serviceCalls,          \* history: CommandClient methods called by the run
    persistFailed,         \* history: add_step / add_command raised for a stored execution
    cancelPc,              \* position of each cancel_execution call
    cancelOutcome,         \* its result
    startOutcome,          \* result of start_execution
    canceledStored,        \* history: cancel_execution has stored Canceled
    cancelHitInFlight,     \* history: it did so while a command was in flight
    finalStored,           \* history: the status the run task stored last
    \* ---- command-execution service
    config,                \* allowed_commands_config: [commands, paths]
    command,               \* the command text given to is_command_allowed
    verdict,               \* what is_command_allowed returned for it
    request,               \* the command posted to /api/execute
    response,              \* HTTP status of that POST
    threadPc,              \* position of the execute_command_task thread
    process,               \* the Popen process of the execution
    return_code,           \* the thread's local return_code
    pipeLines,             \* stdout lines written and not yet read
    linesWritten,          \* stdout lines written so far
    active_executions,     \* execution_id in active_executions
    published,             \* statuses posted to the socket service, in order
    execution_path,        \* the execution directory exists
    files,                 \* output.txt / error.txt: "None" or what error.txt holds
    now,                   \* time.time()
    start_time,            \* the thread's start_time
    csCancelPc,            \* position of each POST /api/execution/<id>/cancel
    csCancelResponse,      \* its HTTP status
    \* ---- allow-list checks of the agent tools
    toolCommand,           \* the command text given to the allow-list checks
    allowed_patterns,      \* allowed_patterns / permissions.allowed_commands
    execute_commands,      \* permissions.execute_commands of the checked agent
    listVerdict,           \* what the three checks returned for it
    \* ---- GET /api/execution/<id> of the command-execution service
    getPc,                 \* position of the get_execution_status handler
    getResponse,           \* HTTP status of the last finished GET
    getStatus,             \* the 'status' field of its body
    getAfterCancel,        \* history: it began after a cancel had answered 200
    \* ---- execution streaming of the app_backup agent service
    hubStatus,             \* the stored status of the execution
    hubStream,             \* the stream argument of execute_agent
    hubPc,                 \* position of execute_agent
    hubSteps,              \* steps persisted by ExecutionCallback.on_step
    hubError,              \* result.error of the agent run is set
    hubCancelPc,           \* position of cancel_execution
    calls,                 \* history: the events of the send_execution_event calls
    streaming_connections, \* connection id (one per user) -> websocket holding the queue
    sockPc,                \* position of each stream_execution handler
    sockUser,              \* its user
    sockSnapshot,          \* the execution as it fetched it, until it is used
    received,              \* every item put on its queue, in order
    taken,                 \* how many of them it has taken with queue.get()
    forwarded,             \* what it has sent to its client, in order
    \* ---- AgentService.execute_agent (start and wait)
    waitPc,                \* position of execute_agent
    waited,                \* its local variable `waited`
    waitOutcome,           \* what it returned or raised
    \* ---- ExecutionService._execute_agent
    esPc,                  \* position of the background task
    esStatus,              \* the stored status of its execution
    esCommand,             \* the stored record of the command it runs
    esResult,              \* command_result of command_client.execute_command
    esSteps,               \* steps stored with add_step, in order
    esPublished,           \* messages published to Redis, in order
    \* ---- CommandAgent._validate_command
    valCommand,            \* the command text being validated
    valExecute,            \* permissions.execute_commands
    valAllowed,            \* permissions.allowed_commands
    commandService,        \* how the command service answers validate_command now
    valVerdicts,           \* what the calls of _validate_command returned, in order
    \* ---- ConnectionManager of the websocket endpoints
    active_connections,    \* connection ids in self.active_connections
    execution_connections, \* execution_id -> connection_id ("None": no entry)
    disconnectLog,         \* history: per connection, the registrations each
                           \* disconnect call removed
    disconnectRaised       \* history: a disconnect call raised

agentVars == <<agentRow, agentType, permExecute, execution, steps, commands,
               streaming, streaming_executions, queue, runPc, runExecution,
               runResult, iterations, cmdInFlight, commandCancelCalls,
               serviceCalls, persistFailed, cancelPc, cancelOutcome,
               startOutcome,
               canceledStored, cancelHitInFlight, finalStored>>

allowVars == <<config, command, verdict>>

cmdVars == <<request, response, threadPc, process, return_code, pipeLines,
             linesWritten, active_executions, published, execution_path, files,
             now, start_time, csCancelPc, csCancelResponse>>

listVars == <<toolCommand, allowed_patterns, execute_commands, listVerdict>>

getVars == <<getPc, getResponse, getStatus, getAfterCancel>>

hubRunVars == <<hubStatus, hubStream, hubPc, hubSteps, hubError>>
sockVars == <<sockPc, sockUser, sockSnapshot, taken, forwarded>>
hubVars == <<hubRunVars, hubCancelPc, calls, streaming_connections, received,
             sockVars>>

waitVars == <<waitPc, waited, waitOutcome>>

esVars == <<esPc, esStatus, esCommand, esResult, esSteps, esPublished>>

valVars == <<valCommand, valExecute, valAllowed, commandService, valVerdicts>>

mgrVars == <<active_connections, execution_connections, disconnectLog,
             disconnectRaised>>

moreVars == <<waitVars, esVars, valVars, mgrVars>>

extraVars == <<listVars, getVars, hubVars, moreVars>>

outsideAgent == <<allowVars, cmdVars, extraVars>>

vars == <<agentVars, allowVars, cmdVars, extraVars>>

\* ------------------------------------------------- execution repository
NoExecution ==
    [row |-> FALSE, status |-> None, output |-> None, error |-> None,
     started_at |-> FALSE, completed_at |-> FALSE]

\* Execution(... status=ExecutionStatus.PENDING ...) saved by create()
NewExecution ==
    [row |-> TRUE, status |-> "pending", output |-> None, error |-> None,
     started_at |-> FALSE, completed_at |-> FALSE]

\* SQLExecutionRepository.update_status: no row, nothing stored (returns
\* None); otherwise the status is overwritten unconditionally and output and
\* error only when given.  started_at / completed_at are the timestamps the
\* call sites pass.
UpdateStatus(ex, status, output, error, started, completed) ==
    IF ~ex.row THEN ex
    ELSE [ex EXCEPT !.status = status,
                    !.output = IF output # None THEN output ELSE @,
                    !.error = IF error # None THEN error ELSE @,
                    !.started_at = IF started THEN TRUE ELSE @,
                    !.completed_at = IF completed THEN TRUE ELSE @]

\* add_step / add_command commit an insert and re-raise whatever the session
\* raises: always when the execution row is gone (foreign key), and possibly
\* otherwise (raises: the connection or the session fails).
\* ExecutionCallback.on_step / on_command log the exception and return.
InsertRaises(raises) == raises \/ ~execution.row

OnStep(stepType) ==
    \E raises \in BOOLEAN :
        /\ steps' = IF InsertRaises(raises) THEN steps ELSE Append(steps, stepType)
        /\ persistFailed' = (persistFailed \/ (raises /\ execution.row))

OnCommand(status) ==
    \E raises \in BOOLEAN :
        /\ commands' = IF InsertRaises(raises) THEN commands
                       ELSE Append(commands, status)
        /\ persistFailed' = (persistFailed \/ (raises /\ execution.row))

\* AgentService._send_stream_event: put the event if a queue is registered
SendStreamEvent(q, registered, event) ==
    IF registered THEN Append(q, event) ELSE q

\* variant: cancel_execution without the status check
CancelAllowed_Any(status) == TRUE

\* cancel_execution: only pending or running executions can be canceled
CancelAllowed(status) == status \in {"pending", "running"}

\* _execute_agent line 632: the status stored after agent.run returned
StatusAfterRun(result) == "completed"

\* ------------------------------------------------------------------ Init
AgentInit ==
    /\ agentRow = TRUE
    /\ agentType \in AgentTypes
    /\ permExecute \in BOOLEAN
    /\ execution = NoExecution
    /\ steps = <<>>
    /\ commands = <<>>
    /\ streaming = FALSE
    /\ streaming_executions = FALSE
    /\ queue = <<>>
    /\ runPc = "idle"
    /\ runExecution = "unbound"
    /\ runResult = [output |-> None, error |-> None]
    /\ iterations = 0
    /\ cmdInFlight = FALSE
    /\ commandCancelCalls = 0
    /\ serviceCalls = {}
    /\ persistFailed = FALSE
    /\ cancelPc = [c \in Callers |-> "idle"]
    /\ cancelOutcome = [c \in Callers |-> None]
    /\ startOutcome = None
    /\ canceledStored = FALSE
    /\ cancelHitInFlight = FALSE
    /\ finalStored = None


\* ------------------------------------------------------- start_execution
\* Agent found: the execution is created Pending, the queue is registered
\* when streaming, and the run task is scheduled.
StartExecution(s) ==
    /\ startOutcome = None
    /\ agentRow
    /\ execution' = NewExecution
    /\ streaming' = s
    /\ streaming_executions' = s
    /\ runPc' = "get_execution"
    /\ startOutcome' = "started"
    /\ UNCHANGED <<outsideAgent, persistFailed, serviceCalls, agentRow, agentType, permExecute, steps, commands, queue,
                   runExecution, runResult, iterations, cmdInFlight,
                   commandCancelCalls, cancelPc, cancelOutcome, canceledStored,
                   cancelHitInFlight, finalStored>>

\* Agent not found: ValueError, nothing created.
StartExecutionNoAgent ==
    /\ startOutcome = None
    /\ ~agentRow
    /\ startOutcome' = "ValueError"
    /\ UNCHANGED <<outsideAgent, persistFailed, serviceCalls, agentRow, agentType, permExecute, execution, steps, commands,
                   streaming, streaming_executions, queue, runPc, runExecution,
                   runResult, iterations, cmdInFlight, commandCancelCalls,
                   cancelPc, cancelOutcome, canceledStored, cancelHitInFlight,
                   finalStored>>

\* delete_agent: the agent row is deleted; its executions, their steps and
\* commands go with it (relationship cascade "all, delete-orphan").
DeleteAgent ==
    /\ agentRow
    /\ agentRow' = FALSE
    /\ execution' = NoExecution
    /\ steps' = <<>>
    /\ commands' = <<>>
    /\ UNCHANGED <<outsideAgent, persistFailed, serviceCalls, agentType, permExecute, streaming, streaming_executions,
                   queue, runPc, runExecution, runResult, iterations,
                   cmdInFlight, commandCancelCalls, cancelPc, cancelOutcome,
                   startOutcome, canceledStored, cancelHitInFlight, finalStored>>

\* ----------------------------------------------- the run task _execute_agent
cfgVars == <<agentRow, agentType, permExecute, streaming, startOutcome>>
cancelVars == <<cancelPc, cancelOutcome, canceledStored, cancelHitInFlight,
                commandCancelCalls>>

\* The finally block: pop the registered queue and put the end-of-stream
\* sentinel None on it.
FinallyQueue(q, isStreaming, registered) ==
    IF isStreaming /\ registered THEN Append(q, None) ELSE q

\* variant: the finally block puts the sentinel without popping the entry
FinallyRegistered_NoPop(isStreaming, registered) == registered

FinallyRegistered(isStreaming, registered) ==
    IF isStreaming /\ registered THEN FALSE ELSE registered

\* execution = await self.execution_repository.get_by_id(execution_id)
RunGetExecution ==
    /\ runPc = "get_execution"
    /\ runExecution' = IF execution.row THEN "obj" ELSE None
    /\ runPc' = IF execution.row THEN "get_agent" ELSE "return"
    /\ UNCHANGED <<outsideAgent, persistFailed, serviceCalls, cfgVars, cancelVars, execution, steps, commands,
                   streaming_executions, queue, runResult, iterations,
                   cmdInFlight, finalStored>>

\* agent = await self.agent_repository.get_by_id(execution.agent_id)
RunGetAgent ==
    /\ runPc = "get_agent"
    /\ runPc' = IF agentRow THEN "set_running" ELSE "agent_not_found"
    /\ UNCHANGED <<outsideAgent, persistFailed, serviceCalls, cfgVars, cancelVars, execution, steps, commands,
                   streaming_executions, queue, runExecution, runResult,
                   iterations, cmdInFlight, finalStored>>

\* update_status(FAILED, error="Agent not found"), then return
RunAgentNotFound ==
    /\ runPc = "agent_not_found"
    /\ execution' = UpdateStatus(execution, "failed", None, "Agent not found",
                                 FALSE, FALSE)
    /\ finalStored' = IF execution.row THEN "failed" ELSE finalStored
    /\ runPc' = "return"
    /\ UNCHANGED <<outsideAgent, persistFailed, serviceCalls, cfgVars, cancelVars, steps, commands, streaming_executions,
                   queue, runExecution, runResult, iterations, cmdInFlight>>

\* return inside the try block: only the finally block runs
RunReturn ==
    /\ runPc = "return"
    /\ queue' = FinallyQueue(queue, streaming, streaming_executions)
    /\ streaming_executions' = FinallyRegistered(streaming, streaming_executions)
    /\ runPc' = "done"
    /\ UNCHANGED <<outsideAgent, persistFailed, serviceCalls, cfgVars, cancelVars, execution, steps, commands,
                   runExecution, runResult, iterations, cmdInFlight,
                   finalStored>>

\* execution = await update_status(RUNNING, started_at=started_at)
RunSetRunning ==
    /\ runPc = "set_running"
    /\ execution' = UpdateStatus(execution, "running", None, None, TRUE, FALSE)
    /\ runExecution' = IF execution.row THEN "obj" ELSE None
    /\ runPc' = "start_agent"
    /\ UNCHANGED <<outsideAgent, persistFailed, serviceCalls, cfgVars, cancelVars, steps, commands, streaming_executions,
                   queue, runResult, iterations, cmdInFlight, finalStored>>

\* The first await inside agent.run for each agent type
AgentEntry ==
    IF agentType = "command"
    THEN (IF permExecute THEN "ca_validate" ELSE "ca_denied_step")
    ELSE "cv_loop"

\* send the running event, create_agent, evaluate execution.input and enter
\* agent.run; ValueError (unsupported type) and AttributeError (execution is
\* None) go to the except block.
RunStartAgent ==
    /\ runPc = "start_agent"
    /\ queue' = IF streaming
                THEN SendStreamEvent(queue, streaming_executions, "status:running")
                ELSE queue
    /\ runPc' = IF agentType = "unsupported" \/ runExecution = None
                THEN "set_failed"
                ELSE AgentEntry
    /\ UNCHANGED <<outsideAgent, persistFailed, serviceCalls, cfgVars, cancelVars, execution, steps, commands,
                   streaming_executions, runExecution, runResult, iterations,
                   cmdInFlight, finalStored>>

\* execution = await update_status(COMPLETED, output, error=result.error, ...)
RunSetCompleted ==
    /\ runPc = "set_completed"
    /\ execution' = UpdateStatus(execution, StatusAfterRun(runResult),
                                 runResult.output, runResult.error, FALSE, FALSE)
    /\ finalStored' = IF execution.row THEN StatusAfterRun(runResult)
                      ELSE finalStored
    /\ runExecution' = IF execution.row THEN "obj" ELSE None
    /\ runPc' = "send_completed"
    /\ UNCHANGED <<outsideAgent, persistFailed, serviceCalls, cfgVars, cancelVars, steps, commands, streaming_executions,
                   queue, runResult, iterations, cmdInFlight>>

\* the completed event (execution.metadata of a None raises into the except
\* block before anything is sent), then the finally block
RunSendCompleted ==
    /\ runPc = "send_completed"
    /\ IF streaming /\ runExecution = None
       THEN /\ runPc' = "set_failed"
            /\ UNCHANGED <<outsideAgent, persistFailed, serviceCalls, queue, streaming_executions>>
       ELSE /\ queue' = FinallyQueue(
                           IF streaming
                           THEN SendStreamEvent(queue, streaming_executions,
                                                "status:completed")
                           ELSE queue,
                           streaming, streaming_executions)
            /\ streaming_executions' =
                   FinallyRegistered(streaming, streaming_executions)
            /\ runPc' = "done"
    /\ UNCHANGED <<outsideAgent, persistFailed, serviceCalls, cfgVars, cancelVars, execution, steps, commands,
                   runExecution, runResult, iterations, cmdInFlight,
                   finalStored>>

\* except: await update_status(FAILED, error=str(e), completed_at=...)
RunSetFailed ==
    /\ runPc = "set_failed"
    /\ execution' = UpdateStatus(execution, "failed", None, "err", FALSE, TRUE)
    /\ finalStored' = IF execution.row THEN "failed" ELSE finalStored
    /\ runPc' = "send_error"
    /\ UNCHANGED <<outsideAgent, persistFailed, serviceCalls, cfgVars, cancelVars, steps, commands, streaming_executions,
                   queue, runExecution, runResult, iterations, cmdInFlight>>

\* the error event, then the finally block
RunSendError ==
    /\ runPc = "send_error"
    /\ queue' = FinallyQueue(
                   IF streaming
                   THEN SendStreamEvent(queue, streaming_executions, "error")
                   ELSE queue,
                   streaming, streaming_executions)
    /\ streaming_executions' = FinallyRegistered(streaming, streaming_executions)
    /\ runPc' = "done"
    /\ UNCHANGED <<outsideAgent, persistFailed, serviceCalls, cfgVars, cancelVars, execution, steps, commands,
                   runExecution, runResult, iterations, cmdInFlight,
                   finalStored>>

\* --------------------------------------------------------- CommandAgent.run
runFrame == <<cfgVars, cancelVars, execution, streaming_executions, queue,
              runExecution, finalStored>>

ErrorResult == [output |-> "message", error |-> "err"]
OkResult == [output |-> "out", error |-> None]

\* permissions.execute_commands is false: a thought step, then an AgentResult
\* with error set
CaDeniedStep ==
    /\ runPc = "ca_denied_step"
    /\ OnStep("thought")
    /\ runResult' = ErrorResult
    /\ runPc' = "set_completed"
    /\ UNCHANGED <<outsideAgent, serviceCalls, runFrame, commands, iterations, cmdInFlight>>

\* _validate_command: False without a call when execute_commands is false
\* or _can_execute_command refuses; otherwise the verdict of
\* command_client.validate_command (False if the call raises)
CaValidate(allowed, valid) ==
    /\ runPc = "ca_validate"
    /\ IF permExecute /\ allowed
       THEN /\ serviceCalls' = serviceCalls \cup {"validate_command"}
            /\ runPc' = IF valid THEN "ca_thought" ELSE "ca_reject_step"
       ELSE /\ UNCHANGED serviceCalls
            /\ runPc' = "ca_reject_step"
    /\ UNCHANGED <<outsideAgent, persistFailed, runFrame, steps, commands, runResult,
                   iterations, cmdInFlight>>

\* not valid: a thought step, then an AgentResult with error set
CaRejectStep ==
    /\ runPc = "ca_reject_step"
    /\ OnStep("thought")
    /\ runResult' = ErrorResult
    /\ runPc' = "set_completed"
    /\ UNCHANGED <<outsideAgent, serviceCalls, runFrame, commands, iterations, cmdInFlight>>

\* _handle_step(callback, "thought", "Executing command: ...")
CaThought ==
    /\ runPc = "ca_thought"
    /\ OnStep("thought")
    /\ runPc' = "ca_cmd_running"
    /\ UNCHANGED <<outsideAgent, serviceCalls, runFrame, commands, runResult, iterations, cmdInFlight>>

\* _handle_command(callback, command=input, status="running")
CaCommandRunning ==
    /\ runPc = "ca_cmd_running"
    /\ OnCommand("running")
    /\ runPc' = "ca_execute"
    /\ UNCHANGED <<outsideAgent, serviceCalls, runFrame, steps, runResult, iterations, cmdInFlight>>

\* _execute_command: the request reaches the command service
CaExecuteSend ==
    /\ runPc = "ca_execute"
    /\ cmdInFlight' = TRUE
    /\ serviceCalls' = serviceCalls \cup {"execute_command"}
    /\ runPc' = "ca_await_result"
    /\ UNCHANGED <<outsideAgent, persistFailed, runFrame, steps, commands, runResult, iterations>>

\* the command service answers (a client error becomes exit code 1)
CaExecuteResult(exit_code) ==
    /\ runPc = "ca_await_result"
    /\ cmdInFlight' = FALSE
    /\ runResult' = IF exit_code = 0 THEN OkResult
                    ELSE [output |-> "out", error |-> "stderr"]
    /\ runPc' = "ca_cmd_result"
    /\ UNCHANGED <<outsideAgent, persistFailed, serviceCalls, runFrame, steps, commands, iterations>>

\* _handle_command(callback, command=input, status=status, ...)
CaCommandResult ==
    /\ runPc = "ca_cmd_result"
    /\ OnCommand(IF runResult.error = None THEN "completed" ELSE "failed")
    /\ runPc' = "ca_final"
    /\ UNCHANGED <<outsideAgent, serviceCalls, runFrame, steps, runResult, iterations, cmdInFlight>>

\* _handle_step(callback, "final_answer", output); return AgentResult
CaFinalAnswer ==
    /\ runPc = "ca_final"
    /\ OnStep("final_answer")
    /\ runPc' = "set_completed"
    /\ UNCHANGED <<outsideAgent, serviceCalls, runFrame, commands, runResult, iterations, cmdInFlight>>

\* --------------------------------------------------- ConversationalAgent.run
\* variant: the command tool is always among the tools
CreatesCommandTool_Always(execute) == TRUE

\* _create_tools: "Add command tool if allowed"
CreatesCommandTool(execute) == execute

\* on_agent_action: the executor picked the command tool (present only when
\* execute_commands is true)
CvAction ==
    /\ runPc = "cv_loop"
    /\ CreatesCommandTool(permExecute)
    /\ iterations < MaxIterations
    /\ OnStep("action")
    /\ runPc' = "cv_tool_start"
    /\ UNCHANGED <<outsideAgent, serviceCalls, runFrame, commands, runResult, iterations, cmdInFlight>>

\* on_tool_start: on_command(command, status="running")
CvToolStart ==
    /\ runPc = "cv_tool_start"
    /\ OnCommand("running")
    /\ runPc' = "cv_tool_run"
    /\ UNCHANGED <<outsideAgent, serviceCalls, runFrame, steps, runResult, iterations, cmdInFlight>>

\* CommandTool._arun: "refused" by the allow-list before any call, "invalid"
\* after command_client.validate_command, or "accepted" and sent to the
\* command service with execute_command
CvToolRun(outcome) ==
    /\ runPc = "cv_tool_run"
    /\ cmdInFlight' = (outcome = "accepted")
    /\ serviceCalls' =
          serviceCalls \cup
             CASE outcome = "refused" -> {}
               [] outcome = "invalid" -> {"validate_command"}
               [] OTHER -> {"validate_command", "execute_command"}
    /\ runPc' = IF outcome = "accepted" THEN "cv_tool_await" ELSE "cv_tool_end"
    /\ UNCHANGED <<outsideAgent, persistFailed, runFrame, steps, commands, runResult, iterations>>

\* the command service answers the tool
CvToolResult ==
    /\ runPc = "cv_tool_await"
    /\ cmdInFlight' = FALSE
    /\ runPc' = "cv_tool_end"
    /\ UNCHANGED <<outsideAgent, persistFailed, serviceCalls, runFrame, steps, commands, runResult, iterations>>

\* on_tool_end: an observation step
CvToolEnd ==
    /\ runPc = "cv_tool_end"
    /\ OnStep("observation")
    /\ iterations' = iterations + 1
    /\ runPc' = "cv_loop"
    /\ UNCHANGED <<outsideAgent, serviceCalls, runFrame, commands, runResult, cmdInFlight>>

\* on_agent_finish: a final_answer step; AgentResult without error
CvFinish ==
    /\ runPc = "cv_loop"
    /\ OnStep("final_answer")
    /\ runResult' = OkResult
    /\ runPc' = "set_completed"
    /\ UNCHANGED <<outsideAgent, serviceCalls, runFrame, commands, iterations, cmdInFlight>>

\* except Exception in run: AgentResult with error=str(e)
CvError ==
    /\ runPc = "cv_loop"
    /\ runResult' = ErrorResult
    /\ runPc' = "set_completed"
    /\ UNCHANGED <<outsideAgent, persistFailed, serviceCalls, runFrame, steps, commands, iterations, cmdInFlight>>

\* ------------------------------------------------------- cancel_execution
runVars == <<runPc, runExecution, runResult, iterations, cmdInFlight,
             finalStored>>

\* an external call can come once start_execution has answered; execute_agent
\* makes its call when its polling loop has ended
CancelCalled(c) ==
    IF c = TimeoutCaller THEN waitPc = "cancel" ELSE startOutcome # None

\* get_by_id, then the not-found and the status checks
CancelGet(c) ==
    /\ cancelPc[c] = "idle"
    /\ CancelCalled(c)
    /\ IF ~execution.row
       THEN /\ cancelPc' = [cancelPc EXCEPT ![c] = "done"]
            /\ cancelOutcome' = [cancelOutcome EXCEPT ![c] = "NotFound"]
       ELSE IF ~CancelAllowed(execution.status)
       THEN /\ cancelPc' = [cancelPc EXCEPT ![c] = "done"]
            /\ cancelOutcome' = [cancelOutcome EXCEPT ![c] = "ValueError"]
       ELSE /\ cancelPc' = [cancelPc EXCEPT ![c] = "update"]
            /\ UNCHANGED cancelOutcome
    /\ UNCHANGED <<outsideAgent, persistFailed, serviceCalls, cfgVars, runVars, execution, steps, commands,
                   streaming_executions, queue, canceledStored,
                   cancelHitInFlight, commandCancelCalls>>

\* update_status(CANCELED, completed_at=utcnow())
CancelUpdate(c) ==
    /\ cancelPc[c] = "update"
    /\ execution' = UpdateStatus(execution, "canceled", None, None, FALSE, TRUE)
    /\ cancelPc' = [cancelPc EXCEPT ![c] = "send"]
    /\ cancelOutcome' = [cancelOutcome EXCEPT
                            ![c] = IF execution.row THEN "updated" ELSE "NotFound"]
    /\ canceledStored' = (canceledStored \/ execution.row)
    /\ cancelHitInFlight' = (cancelHitInFlight \/ (execution.row /\ cmdInFlight))
    /\ UNCHANGED <<outsideAgent, persistFailed, serviceCalls, cfgVars, runVars, steps, commands, streaming_executions,
                   queue, commandCancelCalls>>

\* the canceled event if the execution is streaming; return
CancelSend(c) ==
    /\ cancelPc[c] = "send"
    /\ queue' = SendStreamEvent(queue, streaming_executions, "status:canceled")
    /\ cancelPc' = [cancelPc EXCEPT ![c] = "done"]
    /\ UNCHANGED <<outsideAgent, persistFailed, serviceCalls, cfgVars, runVars, execution, steps, commands,
                   streaming_executions, cancelOutcome, canceledStored,
                   cancelHitInFlight, commandCancelCalls>>

\* ------------------------------------------------------------------ Next
Next ==
    \/ \E s \in BOOLEAN : StartExecution(s)
    \/ StartExecutionNoAgent
    \/ DeleteAgent
    \/ RunGetExecution
    \/ RunGetAgent
    \/ RunAgentNotFound
    \/ RunReturn
    \/ RunSetRunning
    \/ RunStartAgent
    \/ CaDeniedStep
    \/ \E allowed, valid \in BOOLEAN : CaValidate(allowed, valid)
    \/ CaRejectStep
    \/ CaThought
    \/ CaCommandRunning
    \/ CaExecuteSend
    \/ \E exit_code \in {0, 1} : CaExecuteResult(exit_code)
    \/ CaCommandResult
    \/ CaFinalAnswer
    \/ CvAction
    \/ CvToolStart
    \/ \E outcome \in {"refused", "invalid", "accepted"} : CvToolRun(outcome)
    \/ CvToolResult
    \/ CvToolEnd
    \/ CvFinish
    \/ CvError
    \/ RunSetCompleted
    \/ RunSendCompleted
    \/ RunSetFailed
    \/ RunSendError
    \/ \E c \in Cancellers : CancelGet(c)
    \/ \E c \in Cancellers : CancelUpdate(c)
    \/ \E c \in Cancellers : CancelSend(c)


\* api/v1/executions.py cancel_execution: None -> 404, ValueError -> 400
CancelHttpStatus(outcome) ==
    CASE outcome = "NotFound" -> 404
      [] outcome = "ValueError" -> 400
      [] OTHER -> 200

\* ------------------------------------------------ properties, AgentService
Forward(from, to) ==
    \/ from = "pending" /\ to \in {"running"} \cup TerminalStatus
    \/ from = "running" /\ to \in TerminalStatus

CompletionEvents == {"status:completed", "status:failed", "status:canceled", "error"}

Count(q, S) == Cardinality({i \in 1..Len(q) : q[i] \in S})

\* C1: the persisted status of an execution only moves forward,
\* Pending -> Running -> terminal, and a stored terminal status is never
\* replaced by another status.
C1_StatusOnlyMovesForward ==
    [][ (execution.row /\ execution'.row /\ execution'.status # execution.status)
        => Forward(execution.status, execution'.status) ]_vars

\* C2: once cancel_execution has stored Canceled while a command of the run
\* was in flight, the command service has been told to kill it by the time
\* the cancel calls have returned, and the execution is never Completed.
C2_CancelKillsInFlightCommand ==
    cancelHitInFlight =>
        /\ execution.status # "completed"
        /\ (\A c \in Cancellers : cancelPc[c] \in {"idle", "done"})
               => commandCancelCalls > 0

\* C3: after cancel_execution has stored Canceled, the run task's callback
\* persists no further step and no further command.
C3_NoRecordsAfterCancel ==
    [][ canceledStored =>
            /\ Len(steps') <= Len(steps)
            /\ Len(commands') <= Len(commands) ]_vars

\* C4: when the run task of a streaming execution has ended, the queue holds
\* exactly one completion-equivalent event and exactly one end-of-stream
\* sentinel, the sentinel after the event.
C4_ExactlyOneTerminalEvent ==
    (streaming /\ runPc = "done") =>
        /\ Count(queue, CompletionEvents) = 1
        /\ Count(queue, {None}) = 1
        /\ queue[Len(queue)] = None

\* C5: the end-of-stream sentinel is the last item ever enqueued: wherever
\* None is in the queue it is the last item and the execution id is no longer
\* registered in _streaming_executions; and every exit path of a streaming
\* run task has enqueued it.
C5_SentinelIsLast ==
    /\ \A i \in 1..Len(queue) :
           queue[i] = None => (i = Len(queue) /\ ~streaming_executions)
    /\ (streaming /\ runPc = "done") =>
           (Len(queue) > 0 /\ queue[Len(queue)] = None)

\* C5 witness: the sentinel is on the queue and a cancel_execution that
\* stored Canceled has finished without its event reaching the queue.
C5_Witness ==
    /\ Len(queue) > 0 /\ queue[Len(queue)] = None
    /\ \E c \in Cancellers : cancelPc[c] = "done" /\ cancelOutcome[c] = "updated"
    /\ Count(queue, {"status:canceled"}) = 0

C7_ErrorMeansFailed ==
    /\ finalStored = "completed" => runResult.error = None
    /\ (runPc \in {"send_completed", "done"} /\ runResult.error # None)
           => finalStored # "completed"

\* C21: when add_step or add_command has raised during a run whose execution
\* row is stored, the run task ends by storing Failed with an error, never
\* Completed.
C21_PersistFailureIsTerminal ==
    (persistFailed /\ runPc = "done" /\ execution.row) =>
        /\ finalStored = "failed"
        /\ execution.error # None

\* C26: once the run task has ended and the stored execution is terminal, and
\* no insert has failed, no persisted Command record is Pending or Running,
\* and the one command a command agent starts has one record.
C26_NoCommandLeftRunning ==
    (runPc = "done" /\ execution.row /\ execution.status \in TerminalStatus
        /\ ~persistFailed) =>
        /\ \A i \in 1..Len(commands) : commands[i] \notin {"pending", "running"}
        /\ agentType = "command" => Len(commands) <= 1

\* ============================================= command-execution service
Alphabet == {"a", " ", "/", "."}

\* every command text of at most n characters
RECURSIVE Texts(_)
Texts(n) ==
    IF n = 0 THEN {<<>>}
    ELSE LET shorter == Texts(n - 1)
         IN shorter \cup {Append(t, ch) : t \in {x \in shorter : Len(x) = n - 1},
                                          ch \in Alphabet}

\* str.startswith
StartsWith(text, prefix) ==
    /\ Len(prefix) <= Len(text)
    /\ SubSeq(text, 1, Len(prefix)) = prefix

\* str.split(): the maximal runs of non-whitespace characters, in order
RECURSIVE SplitFrom(_, _, _)
SplitFrom(text, i, current) ==
    IF i > Len(text)
    THEN (IF current = <<>> THEN <<>> ELSE <<current>>)
    ELSE IF text[i] = " "
    THEN (IF current = <<>> THEN SplitFrom(text, i + 1, <<>>)
          ELSE <<current>> \o SplitFrom(text, i + 1, <<>>))
    ELSE SplitFrom(text, i + 1, Append(current, text[i]))

Split(text) == SplitFrom(text, 1, <<>>)

\* variant: only absolute and ./ paths are recognised
PathLike_NoParent(part) ==
    \/ StartsWith(part, <<"/">>)
    \/ StartsWith(part, <<".", "/">>)

\* part.startswith('/') or part.startswith('./') or part.startswith('../')
PathLike(part) ==
    \/ StartsWith(part, <<"/">>)
    \/ StartsWith(part, <<".", "/">>)
    \/ StartsWith(part, <<".", ".", "/">>)

\* is_command_allowed(command) under allowed_commands_config cfg
is_command_allowed(cmd, cfg) ==
    LET parts == Split(cmd)
    IN IF parts = <<>> THEN FALSE
       ELSE IF parts[1] \notin cfg.commands THEN FALSE
       ELSE \A k \in 2..Len(parts) :
               PathLike(parts[k]) =>
                   \E allowed_path \in cfg.paths : StartsWith(parts[k], allowed_path)

\* configurations of allowed_commands.json explored by AllowSpec
Configs ==
    [commands : SUBSET {<<"a">>}, paths : SUBSET {<<"/", "a">>}]

ServiceConfig == [commands |-> {<<"a">>}, paths |-> {<<"/", "a">>}]

AllowIdle ==
    /\ config = ServiceConfig
    /\ command = <<>>
    /\ verdict = None

AllowInit ==
    /\ config \in Configs
    /\ command \in Texts(MaxCmdLen)
    /\ verdict = None

\* one evaluation of is_command_allowed(command)
CheckCommand ==
    /\ verdict = None
    /\ verdict' = IF is_command_allowed(command, config) THEN "True" ELSE "False"
    /\ UNCHANGED <<agentVars, cmdVars, extraVars, config, command>>

\* ------------------------------------------------ POST /api/execute
MAX_EXECUTION_TIME == 1
CsCancellers == 1..MaxCsCancels

\* command texts posted to the service
Requests ==
    { <<"a">>, <<"a", " ", "/", "a">>, <<"a", " ", "/", ".">>, <<".">>, <<>> }

CmdIdle ==
    /\ request = <<>>
    /\ response = None
    /\ threadPc = "none"
    /\ process = "none"
    /\ return_code = None
    /\ pipeLines = 0
    /\ linesWritten = 0
    /\ active_executions = FALSE
    /\ published = <<>>
    /\ execution_path = FALSE
    /\ files = None
    /\ now = 0
    /\ start_time = 0
    /\ csCancelPc = [c \in CsCancellers |-> "idle"]
    /\ csCancelResponse = [c \in CsCancellers |-> None]

threadVars == <<threadPc, process, return_code, pipeLines, linesWritten,
                active_executions, published, execution_path, files,
                start_time>>
csCancelVars == <<csCancelPc, csCancelResponse>>
outsideCmd == <<agentVars, allowVars, extraVars>>

\* variant: the handler starts the thread without the security check
ExecuteAdmits_All(cmd, cfg) == TRUE

\* execute_command: "Security check - validate command"
ExecuteAdmits(cmd, cfg) == is_command_allowed(cmd, cfg)

\* execute_command: 403 for a command that is not allowed, otherwise the
\* execution thread is started and 200 'queued' returned
ExecuteCommand(cmd) ==
    /\ response = None
    /\ request' = cmd
    /\ IF ~ExecuteAdmits(cmd, config)
       THEN /\ response' = "403"
            /\ UNCHANGED threadPc
       ELSE /\ response' = "200"
            /\ threadPc' = "makedirs"
    /\ UNCHANGED <<outsideCmd, process, return_code, pipeLines, linesWritten,
                   active_executions, published, execution_path, files, now,
                   start_time, csCancelVars>>

\* ------------------------------------------------- execute_command_task
\* os.makedirs(execution_path, exist_ok=True)
ThreadMakedirs ==
    /\ threadPc = "makedirs"
    /\ execution_path' = TRUE
    /\ threadPc' = "publish_running"
    /\ UNCHANGED <<outsideCmd, request, response, process, return_code,
                   pipeLines, linesWritten, active_executions, published,
                   files, now, start_time, csCancelVars>>

\* update_execution_status(execution_id, 'running', 1, ...); start_time
ThreadPublishStart ==
    /\ threadPc = "publish_running"
    /\ published' = Append(published, "running")
    /\ start_time' = now
    /\ threadPc' = "popen"
    /\ UNCHANGED <<outsideCmd, request, response, process, return_code,
                   pipeLines, linesWritten, active_executions, execution_path,
                   files, now, csCancelVars>>

\* subprocess.Popen(command, shell=True, ...); OSError goes to the handler
ThreadPopen(spawned) ==
    /\ threadPc = "popen"
    /\ process' = IF spawned THEN "running" ELSE process
    /\ threadPc' = IF spawned THEN "register" ELSE "except_publish"
    /\ UNCHANGED <<outsideCmd, request, response, return_code, pipeLines,
                   linesWritten, active_executions, published, execution_path,
                   files, now, start_time, csCancelVars>>

\* active_executions[execution_id] = {...}
ThreadRegister ==
    /\ threadPc = "register"
    /\ active_executions' = TRUE
    /\ threadPc' = "check_timeout"
    /\ UNCHANGED <<outsideCmd, request, response, process, return_code,
                   pipeLines, linesWritten, published, execution_path, files,
                   now, start_time, csCancelVars>>

\* process.kill()
Kill(p) == IF p = "running" THEN "killed" ELSE p

\* if time.time() - start_time > MAX_EXECUTION_TIME: process.kill()
ThreadCheckTimeout ==
    /\ threadPc = "check_timeout"
    /\ IF now - start_time > MAX_EXECUTION_TIME
       THEN /\ process' = Kill(process)
            /\ threadPc' = "publish_timeout"
       ELSE /\ UNCHANGED process
            /\ threadPc' = "poll"
    /\ UNCHANGED <<outsideCmd, request, response, return_code, pipeLines,
                   linesWritten, active_executions, published, execution_path,
                   files, now, start_time, csCancelVars>>

\* update_execution_status(..., 'failed', ..., "Execution timed out"); break
ThreadPublishTimeout ==
    /\ threadPc = "publish_timeout"
    /\ published' = Append(published, "failed:timeout")
    /\ threadPc' = "cleanup"
    /\ UNCHANGED <<outsideCmd, request, response, process, return_code,
                   pipeLines, linesWritten, active_executions, execution_path,
                   files, now, start_time, csCancelVars>>

\* Popen.poll(): None while running, 0, 1, or -9 after a kill
ReturnCode(p) ==
    CASE p = "exit0" -> "0"
      [] p = "exit1" -> "1"
      [] p = "killed" -> "-9"
      [] OTHER -> None

\* return_code = process.poll()
ThreadPoll ==
    /\ threadPc = "poll"
    /\ return_code' = ReturnCode(process)
    /\ threadPc' = IF ReturnCode(process) # None THEN "write_files" ELSE "readline"
    /\ UNCHANGED <<outsideCmd, request, response, process, pipeLines,
                   linesWritten, active_executions, published, execution_path,
                   files, now, start_time, csCancelVars>>

\* communicate(); output.txt and error.txt are written (stderr may be empty)
ThreadWriteFiles(stderr) ==
    /\ threadPc = "write_files"
    /\ pipeLines' = 0
    /\ files' = stderr
    /\ threadPc' = "publish_result"
    /\ UNCHANGED <<outsideCmd, request, response, process, return_code,
                   linesWritten, active_executions, published, execution_path,
                   now, start_time, csCancelVars>>

\* 'completed' for return code 0, 'failed' otherwise; break
ThreadPublishResult ==
    /\ threadPc = "publish_result"
    /\ published' = Append(published,
                           IF return_code = "0" THEN "completed" ELSE "failed")
    /\ threadPc' = "cleanup"
    /\ UNCHANGED <<outsideCmd, request, response, process, return_code,
                   pipeLines, linesWritten, active_executions, execution_path,
                   files, now, start_time, csCancelVars>>

\* process.stdout.readline(): blocks until a line is in the pipe or the pipe
\* is at end of file; undecodable output raises into the handler
ThreadReadline(decodes) ==
    /\ threadPc = "readline"
    /\ pipeLines > 0 \/ process # "running"
    /\ IF pipeLines > 0
       THEN /\ pipeLines' = pipeLines - 1
            /\ threadPc' = IF decodes THEN "publish_progress" ELSE "except_publish"
       ELSE /\ UNCHANGED pipeLines
            /\ threadPc' = "check_timeout"
    /\ UNCHANGED <<outsideCmd, request, response, process, return_code,
                   linesWritten, active_executions, published, execution_path,
                   files, now, start_time, csCancelVars>>

\* update_execution_status(..., 'running', progress, ...); sleep; loop
ThreadPublishProgress ==
    /\ threadPc = "publish_progress"
    /\ published' = Append(published, "running")
    /\ threadPc' = "check_timeout"
    /\ UNCHANGED <<outsideCmd, request, response, process, return_code,
                   pipeLines, linesWritten, active_executions, execution_path,
                   files, now, start_time, csCancelVars>>

\* if execution_id in active_executions:
ThreadCleanupCheck ==
    /\ threadPc = "cleanup"
    /\ threadPc' = IF active_executions THEN "cleanup_del" ELSE "done"
    /\ UNCHANGED <<outsideCmd, request, response, process, return_code,
                   pipeLines, linesWritten, active_executions, published,
                   execution_path, files, now, start_time, csCancelVars>>

\* del active_executions[execution_id]; KeyError goes to the handler
ThreadCleanupDel ==
    /\ threadPc = "cleanup_del"
    /\ active_executions' = FALSE
    /\ threadPc' = IF active_executions THEN "done" ELSE "except_publish"
    /\ UNCHANGED <<outsideCmd, request, response, process, return_code,
                   pipeLines, linesWritten, published, execution_path, files,
                   now, start_time, csCancelVars>>

\* except Exception: update_execution_status(execution_id, 'failed', ...)
ThreadExceptPublish ==
    /\ threadPc = "except_publish"
    /\ published' = Append(published, "failed")
    /\ threadPc' = "except_cleanup"
    /\ UNCHANGED <<outsideCmd, request, response, process, return_code,
                   pipeLines, linesWritten, active_executions, execution_path,
                   files, now, start_time, csCancelVars>>

\* except Exception: if execution_id in active_executions: del ...
ThreadExceptCheck ==
    /\ threadPc = "except_cleanup"
    /\ threadPc' = IF active_executions THEN "except_del" ELSE "done"
    /\ UNCHANGED <<outsideCmd, request, response, process, return_code,
                   pipeLines, linesWritten, active_executions, published,
                   execution_path, files, now, start_time, csCancelVars>>

\* a KeyError here leaves the thread with an unhandled exception
ThreadExceptDel ==
    /\ threadPc = "except_del"
    /\ active_executions' = FALSE
    /\ threadPc' = IF active_executions THEN "done" ELSE "crashed"
    /\ UNCHANGED <<outsideCmd, request, response, process, return_code,
                   pipeLines, linesWritten, published, execution_path, files,
                   now, start_time, csCancelVars>>

\* ------------------------------------------------------ the child process
\* the process writes a line to stdout
ProcWrite ==
    /\ process = "running"
    /\ linesWritten < MaxLines
    /\ linesWritten' = linesWritten + 1
    /\ pipeLines' = pipeLines + 1
    /\ UNCHANGED <<outsideCmd, request, response, threadPc, process,
                   return_code, active_executions, published, execution_path,
                   files, now, start_time, csCancelVars>>

\* the process exits on its own
ProcExit(code) ==
    /\ process = "running"
    /\ process' = IF code = 0 THEN "exit0" ELSE "exit1"
    /\ UNCHANGED <<outsideCmd, request, response, threadPc, return_code,
                   pipeLines, linesWritten, active_executions, published,
                   execution_path, files, now, start_time, csCancelVars>>

\* time passes
Tick ==
    /\ threadPc \notin {"none", "done", "crashed"}
    /\ now < MaxClock
    /\ now' = now + 1
    /\ UNCHANGED <<outsideCmd, request, response, threadVars, csCancelVars>>

\* ---------------------------------- POST /api/execution/<id>/cancel
\* if execution_id in active_executions: ... else 404
CsCancelCheck(c) ==
    /\ csCancelPc[c] = "idle"
    /\ response = "200"
    /\ IF active_executions
       THEN /\ csCancelPc' = [csCancelPc EXCEPT ![c] = "kill"]
            /\ UNCHANGED csCancelResponse
       ELSE /\ csCancelPc' = [csCancelPc EXCEPT ![c] = "done"]
            /\ csCancelResponse' = [csCancelResponse EXCEPT ![c] = "404"]
    /\ UNCHANGED <<outsideCmd, request, response, threadVars, now>>

\* execution['process'].kill()
CsCancelKill(c) ==
    /\ csCancelPc[c] = "kill"
    /\ process' = Kill(process)
    /\ csCancelPc' = [csCancelPc EXCEPT ![c] = "publish"]
    /\ UNCHANGED <<outsideCmd, request, response, threadPc, return_code,
                   pipeLines, linesWritten, active_executions, published,
                   execution_path, files, now, start_time, csCancelResponse>>

\* update_execution_status(execution_id, 'cancelled', 100, ...)
CsCancelPublish(c) ==
    /\ csCancelPc[c] = "publish"
    /\ published' = Append(published, "cancelled")
    /\ csCancelPc' = [csCancelPc EXCEPT ![c] = "del"]
    /\ UNCHANGED <<outsideCmd, request, response, threadPc, process,
                   return_code, pipeLines, linesWritten, active_executions,
                   execution_path, files, now, start_time, csCancelResponse>>

\* del active_executions[execution_id]; a KeyError is an HTTP 500
CsCancelDel(c) ==
    /\ csCancelPc[c] = "del"
    /\ active_executions' = FALSE
    /\ csCancelPc' = [csCancelPc EXCEPT ![c] = "done"]
    /\ csCancelResponse' = [csCancelResponse EXCEPT
                               ![c] = IF active_executions THEN "200" ELSE "500"]
    /\ UNCHANGED <<outsideCmd, request, response, threadPc, process,
                   return_code, pipeLines, linesWritten, published,
                   execution_path, files, now, start_time>>

\* ------------------------------------------ GET /api/execution/<id>
GetIdle ==
    /\ getPc = "idle"
    /\ getResponse = None
    /\ getStatus = None
    /\ getAfterCancel = FALSE

\* a GET for the id that POST /api/execute returned:
\* if execution_id in active_executions
GetCheck ==
    /\ getPc = "idle"
    /\ response = "200"
    /\ getPc' = IF active_executions THEN "lookup" ELSE "files"
    /\ getResponse' = None
    /\ getStatus' = None
    /\ getAfterCancel' = (\E c \in CsCancellers : csCancelResponse[c] = "200")
    /\ UNCHANGED <<agentVars, allowVars, cmdVars, listVars, hubVars, moreVars>>

\* execution = active_executions[execution_id] (a KeyError is an HTTP 500);
\* return_code = execution['process'].poll(); 'running', 'completed' or 'failed'
GetLookup ==
    /\ getPc = "lookup"
    /\ getPc' = "idle"
    /\ IF active_executions
       THEN /\ getResponse' = "200"
            /\ getStatus' = CASE ReturnCode(process) = None -> "running"
                              [] ReturnCode(process) = "0" -> "completed"
                              [] OTHER -> "failed"
       ELSE /\ getResponse' = "500"
            /\ getStatus' = None
    /\ UNCHANGED <<agentVars, allowVars, cmdVars, listVars, hubVars, moreVars,
                   getAfterCancel>>

\* os.path.exists(execution_path): the files are read where they exist and
\* the status is 'completed' if not error else 'failed'; otherwise 404
GetFiles ==
    /\ getPc = "files"
    /\ getPc' = "idle"
    /\ IF execution_path
       THEN /\ getResponse' = "200"
            /\ getStatus' = IF files \in {None, ""} THEN "completed" ELSE "failed"
       ELSE /\ getResponse' = "404"
            /\ getStatus' = None
    /\ UNCHANGED <<agentVars, allowVars, cmdVars, listVars, hubVars, moreVars,
                   getAfterCancel>>

GetStep == GetCheck \/ GetLookup \/ GetFiles

\* ------------------------------------------------------- specifications
ThreadStep ==
    \/ ThreadMakedirs
    \/ ThreadPublishStart
    \/ \E spawned \in BOOLEAN : ThreadPopen(spawned)
    \/ ThreadRegister
    \/ ThreadCheckTimeout
    \/ ThreadPublishTimeout
    \/ ThreadPoll
    \/ \E stderr \in {"", "stderr"} : ThreadWriteFiles(stderr)
    \/ ThreadPublishResult
    \/ \E decodes \in BOOLEAN : ThreadReadline(decodes)
    \/ ThreadPublishProgress
    \/ ThreadCleanupCheck
    \/ ThreadCleanupDel
    \/ ThreadExceptPublish
    \/ ThreadExceptCheck
    \/ ThreadExceptDel

CsCancelStep ==
    \/ \E c \in CsCancellers : CsCancelCheck(c)
    \/ \E c \in CsCancellers : CsCancelKill(c)
    \/ \E c \in CsCancellers : CsCancelPublish(c)
    \/ \E c \in CsCancellers : CsCancelDel(c)

\* ================================== allow-list checks of the agent tools
MaxTextLen == 3
MaxPatternLen == 2
MaxPatterns == 2

CommandAlphabet == {"a", " ", "*"}
PatternAlphabet == {"a", " ", ".", "*"}

\* every text of at most n characters over the alphabet
RECURSIVE TextsOver(_, _)
TextsOver(alphabet, n) ==
    IF n = 0 THEN {<<>>}
    ELSE LET shorter == TextsOver(alphabet, n - 1)
         IN shorter \cup {Append(t, ch) : t \in {x \in shorter : Len(x) = n - 1},
                                          ch \in alphabet}

CommandTexts == TextsOver(CommandAlphabet, MaxTextLen)
Patterns == TextsOver(PatternAlphabet, MaxPatternLen)

\* every list of at most n patterns
RECURSIVE PatternLists(_)
PatternLists(n) ==
    IF n = 0 THEN {<<>>}
    ELSE LET shorter == PatternLists(n - 1)
         IN shorter \cup {Append(l, p) : l \in {x \in shorter : Len(x) = n - 1},
                                         p \in Patterns}

\* command.split(" ")[0]: the text before the first space, possibly empty
RECURSIVE SplitSpaceFirst(_)
SplitSpaceFirst(text) ==
    IF text = <<>> \/ Head(text) = " " THEN <<>>
    ELSE <<Head(text)>> \o SplitSpaceFirst(Tail(text))

\* re.compile raises re.error for a pattern over PatternAlphabet exactly when
\* a "*" has nothing to repeat (it comes first, right after the "^" the
\* caller prepends) or repeats a repeat
ReError(pattern) ==
    \/ pattern # <<>> /\ pattern[1] = "*"
    \/ \E k \in 1..(Len(pattern) - 1) : pattern[k] = "*" /\ pattern[k + 1] = "*"

\* one regex atom against one character: "." matches any character but a
\* newline, every other atom is a literal
AtomMatches(atom, ch) == atom = "." \/ atom = ch

\* re.match("^" + pattern, text), and with atEnd re.match("^" + pattern + "$", text),
\* for a pattern of atoms and starred atoms
RECURSIVE ReMatch(_, _, _)
ReMatch(pattern, text, atEnd) ==
    IF pattern = <<>> THEN (atEnd => text = <<>>)
    ELSE IF Len(pattern) >= 2 /\ pattern[2] = "*"
    THEN \E k \in 0..Len(text) :
            /\ \A m \in 1..k : AtomMatches(pattern[1], text[m])
            /\ ReMatch(SubSeq(pattern, 3, Len(pattern)),
                       SubSeq(text, k + 1, Len(text)), atEnd)
    ELSE /\ text # <<>>
         /\ AtomMatches(pattern[1], text[1])
         /\ ReMatch(Tail(pattern), Tail(text), atEnd)

\* variant: the "*" entry is not special
HasWildcard_Never(patterns) == FALSE

\* "*" in allowed_patterns
HasWildcard(patterns) == \E k \in 1..Len(patterns) : patterns[k] = <<"*">>

\* _is_command_allowed(command, allowed_patterns) of the command tool
_is_command_allowed(cmd, patterns) ==
    IF patterns = <<>> THEN FALSE
    ELSE IF HasWildcard(patterns) THEN TRUE
    ELSE LET base_command == SplitSpaceFirst(cmd)
         IN \E k \in 1..Len(patterns) :
               IF ReError(patterns[k])
               THEN base_command = patterns[k] \/ StartsWith(cmd, patterns[k])
               ELSE \/ ReMatch(patterns[k], base_command, TRUE)
                    \/ ReMatch(patterns[k], cmd, FALSE)

\* BaseAgent._can_execute_command(command) under permissions
\* (execute_commands, allowed_commands)
_can_execute_command(cmd, execute, allowed) ==
    IF ~execute THEN FALSE
    ELSE IF allowed = <<>> THEN TRUE
    ELSE \E k \in 1..Len(allowed) : StartsWith(cmd, allowed[k])

\* the allow-list step of CommandTool._arun: shlex.split(command)[0] raises
\* IndexError for a blank command (the handler answers with an error text),
\* a base command missing from a non-empty allowed_commands is refused, and
\* every other command goes on to validation and execution
ToolAllowStep(cmd, allowed) ==
    LET command_parts == Split(cmd)
    IN IF command_parts = <<>> THEN "error"
       ELSE IF /\ allowed # <<>>
               /\ \A k \in 1..Len(allowed) : allowed[k] # command_parts[1]
       THEN "refused"
       ELSE "proceeds"

Verdict(b) == IF b THEN "True" ELSE "False"

NotChecked == [tool_fn |-> None, agent |-> None, arun |-> None]
ListChecked == listVerdict.arun # None

ListIdle ==
    /\ toolCommand = <<>>
    /\ allowed_patterns = <<>>
    /\ execute_commands = TRUE
    /\ listVerdict = NotChecked

ListInit ==
    /\ toolCommand \in CommandTexts
    /\ allowed_patterns \in PatternLists(MaxPatterns)
    /\ execute_commands \in BOOLEAN
    /\ listVerdict = NotChecked

\* one evaluation of the three checks on the same command and list
CheckAllowList ==
    /\ ~ListChecked
    /\ listVerdict' =
          [tool_fn |-> Verdict(_is_command_allowed(toolCommand, allowed_patterns)),
           agent |-> Verdict(_can_execute_command(toolCommand, execute_commands,
                                               allowed_patterns)),
           arun |-> ToolAllowStep(toolCommand, allowed_patterns)]
    /\ UNCHANGED <<agentVars, allowVars, cmdVars, getVars, hubVars, moreVars,
                   toolCommand,
                   allowed_patterns, execute_commands>>

\* =================== execution streaming of the app_backup agent service
MaxHubSteps == 1
MaxSockets == 2
MaxPings == 1

Sockets == 1..MaxSockets
HubUsers == {"u1", "u2"}
NoSocket == 0
HubTerminal == {"completed", "failed", "canceled"}

\* asyncio.Queue(): maxsize 0
QueueMaxsize == 0

\* variant: the queue holds one item at most
QueueFull_Bounded(pending) == pending >= 1

\* Queue.full(): never for maxsize <= 0
QueueFull(pending) ==
    IF QueueMaxsize <= 0 THEN FALSE ELSE pending >= QueueMaxsize

\* variant: the newest item overtakes the items not yet taken
QueuePut_Front(q, k, event) ==
    SubSeq(q, 1, k) \o <<event>> \o SubSeq(q, k + 1, Len(q))

\* Queue.put: the item goes behind the items already in the queue
\* (q holds every item ever put, the first k of them already taken)
QueuePut(q, k, event) == Append(q, event)

\* a message with the position of its send_execution_event call (0 for a
\* message the websocket handler builds itself)
Event(n, type) == [n |-> n, type |-> type]

\* the queues send_execution_event finds in streaming_connections
Registered == {w \in Sockets : \E u \in HubUsers : streaming_connections[u] = w}

\* send_execution_event(execution_id, event): one put per registered queue;
\* no put suspends unless its queue is full
SendExecutionEvent(type) ==
    /\ \A w \in Registered : ~QueueFull(Len(received[w]) - taken[w])
    /\ calls' = Append(calls, Event(Len(calls) + 1, type))
    /\ received' = [w \in Sockets |->
                       IF w \in Registered
                       THEN QueuePut(received[w], taken[w],
                                     Event(Len(calls) + 1, type))
                       ELSE received[w]]

\* execute_agent sends only `if stream`
SendIfStream(type) ==
    IF hubStream THEN SendExecutionEvent(type)
    ELSE UNCHANGED <<calls, received>>

\* what get_execution returns: the stored status and the stored steps
NoSnapshot == [status |-> None, steps |-> 0]

HubIdle ==
    /\ hubStatus = None
    /\ hubStream = TRUE
    /\ hubPc = "none"
    /\ hubSteps = 0
    /\ hubError = FALSE
    /\ hubCancelPc = "idle"
    /\ calls = <<>>
    /\ streaming_connections = [u \in HubUsers |-> NoSocket]
    /\ sockPc = [w \in Sockets |-> "new"]
    /\ sockUser = [w \in Sockets |-> "u1"]
    /\ sockSnapshot = [w \in Sockets |-> NoSnapshot]
    /\ received = [w \in Sockets |-> <<>>]
    /\ taken = [w \in Sockets |-> 0]
    /\ forwarded = [w \in Sockets |-> <<>>]

\* execute_agent has created the execution with status "running"
HubInit ==
    /\ hubStatus = "running"
    /\ hubStream \in BOOLEAN
    /\ hubPc = "set_running"
    /\ hubSteps = 0
    /\ hubError = FALSE
    /\ hubCancelPc = "idle"
    /\ calls = <<>>
    /\ streaming_connections = [u \in HubUsers |-> NoSocket]
    /\ sockPc = [w \in Sockets |-> "new"]
    /\ sockUser = [w \in Sockets |-> "u1"]
    /\ sockSnapshot = [w \in Sockets |-> NoSnapshot]
    /\ received = [w \in Sockets |-> <<>>]
    /\ taken = [w \in Sockets |-> 0]
    /\ forwarded = [w \in Sockets |-> <<>>]

outsideHub == <<agentVars, allowVars, cmdVars, listVars, getVars, moreVars>>

\* ------------------------------------------------------- execute_agent
\* create_agent, then update_status(execution.id, "running"); an exception
\* of create_agent goes to the handler
HubSetRunning(created) ==
    /\ hubPc = "set_running"
    /\ IF created
       THEN /\ hubStatus' = "running"
            /\ hubPc' = "send_status"
       ELSE /\ UNCHANGED hubStatus
            /\ hubPc' = "set_failed"
    /\ UNCHANGED <<outsideHub, hubStream, hubSteps, hubError, hubCancelPc,
                   calls, streaming_connections, received, sockVars>>

\* the "status" event
HubSendStatus ==
    /\ hubPc = "send_status"
    /\ SendIfStream("status")
    /\ hubPc' = "run"
    /\ UNCHANGED <<outsideHub, hubStatus, hubStream, hubSteps, hubError,
                   hubCancelPc, streaming_connections, sockVars>>

\* ExecutionCallback.on_step: add_step
HubStepSave ==
    /\ hubPc = "run"
    /\ hubSteps < MaxHubSteps
    /\ hubSteps' = hubSteps + 1
    /\ hubPc' = "step_send"
    /\ UNCHANGED <<outsideHub, hubStatus, hubStream, hubError, hubCancelPc,
                   calls, streaming_connections, received, sockVars>>

\* ExecutionCallback.on_step: the "step" event, if agent_service is set
HubStepSend ==
    /\ hubPc = "step_send"
    /\ SendIfStream("step")
    /\ hubPc' = "run"
    /\ UNCHANGED <<outsideHub, hubStatus, hubStream, hubSteps, hubError,
                   hubCancelPc, streaming_connections, sockVars>>

\* agent_instance.run returns a result (with or without error) or raises
HubRunEnds(outcome) ==
    /\ hubPc = "run"
    /\ hubError' = (outcome = "error")
    /\ hubPc' = IF outcome = "raise" THEN "set_failed" ELSE "set_final"
    /\ UNCHANGED <<outsideHub, hubStatus, hubStream, hubSteps, hubCancelPc,
                   calls, streaming_connections, received, sockVars>>

\* status = "failed" if result.error else "completed"; update_status
HubSetFinal ==
    /\ hubPc = "set_final"
    /\ hubStatus' = IF hubError THEN "failed" ELSE "completed"
    /\ hubPc' = "send_completion"
    /\ UNCHANGED <<outsideHub, hubStream, hubSteps, hubError, hubCancelPc,
                   calls, streaming_connections, received, sockVars>>

\* the "completion" event
HubSendCompletion ==
    /\ hubPc = "send_completion"
    /\ SendIfStream("completion")
    /\ hubPc' = "send_none"
    /\ UNCHANGED <<outsideHub, hubStatus, hubStream, hubSteps, hubError,
                   hubCancelPc, streaming_connections, sockVars>>

\* except Exception: update_status(status="failed")
HubSetFailed ==
    /\ hubPc = "set_failed"
    /\ hubStatus' = "failed"
    /\ hubPc' = "send_error"
    /\ UNCHANGED <<outsideHub, hubStream, hubSteps, hubError, hubCancelPc,
                   calls, streaming_connections, received, sockVars>>

\* the "error" event
HubSendError ==
    /\ hubPc = "send_error"
    /\ SendIfStream("error")
    /\ hubPc' = "send_none"
    /\ UNCHANGED <<outsideHub, hubStatus, hubStream, hubSteps, hubError,
                   hubCancelPc, streaming_connections, sockVars>>

\* "Signal end of stream": send_execution_event(execution.id, None)
HubSendNone ==
    /\ hubPc = "send_none"
    /\ SendIfStream(None)
    /\ hubPc' = "done"
    /\ UNCHANGED <<outsideHub, hubStatus, hubStream, hubSteps, hubError,
                   hubCancelPc, streaming_connections, sockVars>>

\* ---------------------------------------------------- cancel_execution
\* get_by_id; a terminal execution is returned as it is
HubCancelGet ==
    /\ hubCancelPc = "idle"
    /\ hubCancelPc' = IF hubStatus \in HubTerminal THEN "done" ELSE "update"
    /\ UNCHANGED <<outsideHub, hubRunVars, calls, streaming_connections,
                   received, sockVars>>

\* update_status(status="canceled", ...)
HubCancelUpdate ==
    /\ hubCancelPc = "update"
    /\ hubStatus' = "canceled"
    /\ hubCancelPc' = "send"
    /\ UNCHANGED <<outsideHub, hubStream, hubPc, hubSteps, hubError, calls,
                   streaming_connections, received, sockVars>>

\* the "completion" event with status canceled
HubCancelSend ==
    /\ hubCancelPc = "send"
    /\ SendExecutionEvent("completion")
    /\ hubCancelPc' = "none"
    /\ UNCHANGED <<outsideHub, hubRunVars, streaming_connections, sockVars>>

\* send_execution_event(execution_id, None)
HubCancelNone ==
    /\ hubCancelPc = "none"
    /\ SendExecutionEvent(None)
    /\ hubCancelPc' = "done"
    /\ UNCHANGED <<outsideHub, hubRunVars, streaming_connections, sockVars>>

\* ----------------------------------------- stream_execution (websocket)
\* streaming_connections.pop(connection_id, None)
PopConnection(u) == [streaming_connections EXCEPT ![u] = NoSocket]

\* the item the handler took last
TakenEvent(w) == received[w][taken[w]]

\* the users a socket may belong to: the first socket's user is "u1", the
\* others share it or not
SockUsers(w) == IF w = 1 THEN {"u1"} ELSE HubUsers

\* accept; execution = await agent_service.get_execution(execution_id);
\* the sockets are numbered in the order they are accepted
SockOpen(w, u) ==
    /\ sockPc[w] = "new"
    /\ hubPc # "none"
    /\ \A v \in Sockets : v < w => sockPc[v] # "new"
    /\ sockUser' = [sockUser EXCEPT ![w] = u]
    /\ sockSnapshot' = [sockSnapshot EXCEPT
                            ![w] = [status |-> hubStatus, steps |-> hubSteps]]
    /\ sockPc' = [sockPc EXCEPT ![w] = "replay"]
    /\ UNCHANGED <<outsideHub, hubRunVars, hubCancelPc, calls,
                   streaming_connections, received, taken, forwarded>>

\* the messages sent from the fetched execution: its status ("replay"),
\* then one message per stored step
Replay(snapshot) ==
    <<Event(0, "replay")>> \o [i \in 1..snapshot.steps |-> Event(0, "step")]

\* the initial state, the stored steps and commands are sent; a terminal
\* execution gets its completion message and the socket is closed; otherwise
\* the queue is created and registered under ws_<user>_<execution>
SockReplay(w, sent) ==
    /\ sockPc[w] = "replay"
    /\ IF ~sent
       THEN /\ sockPc' = [sockPc EXCEPT ![w] = "closed"]
            /\ UNCHANGED <<forwarded, streaming_connections>>
       ELSE IF sockSnapshot[w].status \in HubTerminal
       THEN /\ sockPc' = [sockPc EXCEPT ![w] = "closed"]
            /\ forwarded' = [forwarded EXCEPT ![w] =
                                @ \o Replay(sockSnapshot[w])
                                  \o <<Event(0, "completion")>>]
            /\ UNCHANGED streaming_connections
       ELSE /\ sockPc' = [sockPc EXCEPT ![w] = "listening"]
            /\ forwarded' = [forwarded EXCEPT ![w] = @ \o Replay(sockSnapshot[w])]
            /\ streaming_connections' =
                  [streaming_connections EXCEPT ![sockUser[w]] = w]
    /\ sockSnapshot' = [sockSnapshot EXCEPT ![w] = NoSnapshot]
    /\ UNCHANGED <<outsideHub, hubRunVars, hubCancelPc, calls, received,
                   sockUser, taken>>

\* event = await asyncio.wait_for(queue.get(), timeout=30); None ends the loop
SockGet(w) ==
    /\ sockPc[w] = "listening"
    /\ taken[w] < Len(received[w])
    /\ taken' = [taken EXCEPT ![w] = @ + 1]
    /\ IF received[w][taken[w] + 1].type = None
       THEN /\ sockPc' = [sockPc EXCEPT ![w] = "closed"]
            /\ streaming_connections' = PopConnection(sockUser[w])
       ELSE /\ sockPc' = [sockPc EXCEPT ![w] = "send"]
            /\ UNCHANGED streaming_connections
    /\ UNCHANGED <<outsideHub, hubRunVars, hubCancelPc, calls, received,
                   sockUser, sockSnapshot, forwarded>>

\* await websocket.send_json(event); a completion event ends the loop, and
\* so does a failed send
SockSend(w, sent) ==
    /\ sockPc[w] = "send"
    /\ forwarded' = [forwarded EXCEPT ![w] =
                        IF sent THEN Append(@, TakenEvent(w)) ELSE @]
    /\ IF sent /\ TakenEvent(w).type # "completion"
       THEN /\ sockPc' = [sockPc EXCEPT ![w] = "listening"]
            /\ UNCHANGED streaming_connections
       ELSE /\ sockPc' = [sockPc EXCEPT ![w] = "closed"]
            /\ streaming_connections' = PopConnection(sockUser[w])
    /\ UNCHANGED <<outsideHub, hubRunVars, hubCancelPc, calls, received,
                   sockUser, sockSnapshot, taken>>

\* pings the handler has sent
Pings(w) == Len(SelectSeq(forwarded[w], LAMBDA m : m.type = "ping"))

RECURSIVE TotalPings(_)
TotalPings(S) ==
    IF S = {} THEN 0
    ELSE LET w == CHOOSE x \in S : TRUE IN Pings(w) + TotalPings(S \ {w})

\* asyncio.TimeoutError on an empty queue: a ping is sent (the idle periods
\* of all handlers together are bounded by MaxPings)
SockTimeout(w, sent) ==
    /\ sockPc[w] = "listening"
    /\ taken[w] = Len(received[w])
    /\ TotalPings(Sockets) < MaxPings
    /\ IF sent
       THEN /\ forwarded' = [forwarded EXCEPT ![w] = Append(@, Event(0, "ping"))]
            /\ sockPc' = [sockPc EXCEPT ![w] = "check"]
            /\ UNCHANGED streaming_connections
       ELSE /\ UNCHANGED forwarded
            /\ sockPc' = [sockPc EXCEPT ![w] = "closed"]
            /\ streaming_connections' = PopConnection(sockUser[w])
    /\ UNCHANGED <<outsideHub, hubRunVars, hubCancelPc, calls, received,
                   sockUser, sockSnapshot, taken>>

\* after the ping: get_execution; a terminal execution gets a completion
\* message built from the stored row and the loop ends
SockCheck(w, sent) ==
    /\ sockPc[w] = "check"
    /\ IF hubStatus \in HubTerminal
       THEN /\ forwarded' = [forwarded EXCEPT ![w] =
                                IF sent THEN Append(@, Event(0, "completion"))
                                ELSE @]
            /\ sockPc' = [sockPc EXCEPT ![w] = "closed"]
            /\ streaming_connections' = PopConnection(sockUser[w])
       ELSE /\ sent
            /\ sockPc' = [sockPc EXCEPT ![w] = "listening"]
            /\ UNCHANGED <<forwarded, streaming_connections>>
    /\ UNCHANGED <<outsideHub, hubRunVars, hubCancelPc, calls, received,
                   sockUser, sockSnapshot, taken>>

HubRunStep ==
    \/ \E created \in BOOLEAN : HubSetRunning(created)
    \/ HubSendStatus
    \/ HubStepSave
    \/ HubStepSend
    \/ \E outcome \in {"ok", "error", "raise"} : HubRunEnds(outcome)
    \/ HubSetFinal
    \/ HubSendCompletion
    \/ HubSetFailed
    \/ HubSendError
    \/ HubSendNone

HubNext ==
    \/ \E created \in BOOLEAN : HubSetRunning(created)
    \/ HubSendStatus
    \/ HubStepSave
    \/ HubStepSend
    \/ \E outcome \in {"ok", "error", "raise"} : HubRunEnds(outcome)
    \/ HubSetFinal
    \/ HubSendCompletion
    \/ HubSetFailed
    \/ HubSendError
    \/ HubSendNone
    \/ \E w \in Sockets : \E u \in SockUsers(w) : SockOpen(w, u)
    \/ \E w \in Sockets, sent \in BOOLEAN : SockReplay(w, sent)
    \/ \E w \in Sockets : SockGet(w)
    \/ \E w \in Sockets, sent \in BOOLEAN : SockSend(w, sent)
    \/ \E w \in Sockets, sent \in BOOLEAN : SockTimeout(w, sent)
    \/ \E w \in Sockets, sent \in BOOLEAN : SockCheck(w, sent)

\* ------------------------------------------ execute_agent (start and wait)
WaitIdle ==
    /\ waitPc = "none"
    /\ waited = 0
    /\ waitOutcome = None

MaxWaitTime == 2

\* max_wait_time = 300 and poll_interval = 1 in the source
max_wait_time == MaxWaitTime
poll_interval == 1

WaitInit ==
    /\ waitPc = "start"
    /\ waited = 0
    /\ waitOutcome = None

outsideWait == <<agentVars, allowVars, cmdVars, listVars, getVars, hubVars,
                 esVars, valVars, mgrVars>>

\* execution = await self.start_execution(agent_id, input, user_id, metadata)
\* has answered: its ValueError propagates, otherwise the loop is entered
WaitStarted ==
    /\ waitPc = "start"
    /\ startOutcome # None
    /\ IF startOutcome = "ValueError"
       THEN waitPc' = "done" /\ waitOutcome' = "ValueError:agent"
       ELSE waitPc' = "poll" /\ UNCHANGED waitOutcome
    /\ UNCHANGED <<outsideWait, waited>>

\* if updated_execution.status in [COMPLETED, FAILED]: return updated_execution
PollReturns(status) == status \in {"completed", "failed"}

\* one poll: get_by_id, the not-found check and the status check
WaitPoll ==
    /\ waitPc = "poll"
    /\ IF ~execution.row
       THEN waitPc' = "done" /\ waitOutcome' = "ValueError:not found"
       ELSE IF PollReturns(execution.status)
       THEN waitPc' = "done" /\ waitOutcome' = execution.status
       ELSE waitPc' = "sleep" /\ UNCHANGED waitOutcome
    /\ UNCHANGED <<outsideWait, waited>>

\* variant: after the loop the timeout error is raised without a cancel
AfterLoop_NoCancel == "raise"

\* after the loop: await self.cancel_execution(execution.id)
AfterLoop == "cancel"

\* await asyncio.sleep(poll_interval); waited += poll_interval; loop test
WaitSleep ==
    /\ waitPc = "sleep"
    /\ waited' = waited + poll_interval
    /\ waitPc' = IF waited + poll_interval < max_wait_time THEN "poll"
                 ELSE AfterLoop
    /\ UNCHANGED <<outsideWait, waitOutcome>>

\* cancel_execution has returned or raised: its ValueError propagates,
\* otherwise raise ValueError("Execution timed out ...")
WaitRaise ==
    /\ waitPc \in {"cancel", "raise"}
    /\ waitPc = "cancel" => cancelPc[TimeoutCaller] = "done"
    /\ waitOutcome' = IF cancelOutcome[TimeoutCaller] = "ValueError"
                      THEN "ValueError:cannot cancel"
                      ELSE "ValueError:timed out"
    /\ waitPc' = "done"
    /\ UNCHANGED <<outsideWait, waited>>

\* execute_agent beside the run task it started, one external cancel
\* request and delete_agent
WaitNext ==
    \/ StartExecution(FALSE)
    \/ StartExecutionNoAgent
    \/ DeleteAgent
    \/ RunGetExecution
    \/ RunGetAgent
    \/ RunAgentNotFound
    \/ RunReturn
    \/ RunSetRunning
    \/ RunStartAgent
    \/ CaDeniedStep
    \/ \E allowed, valid \in BOOLEAN : CaValidate(allowed, valid)
    \/ CaRejectStep
    \/ CaThought
    \/ CaCommandRunning
    \/ CaExecuteSend
    \/ \E exit_code \in {0, 1} : CaExecuteResult(exit_code)
    \/ CaCommandResult
    \/ CaFinalAnswer
    \/ CvAction
    \/ CvToolStart
    \/ \E outcome \in {"refused", "invalid", "accepted"} : CvToolRun(outcome)
    \/ CvToolResult
    \/ CvToolEnd
    \/ CvFinish
    \/ CvError
    \/ RunSetCompleted
    \/ RunSendCompleted
    \/ RunSetFailed
    \/ RunSendError
    \/ \E c \in {TimeoutCaller, 1} : CancelGet(c)
    \/ \E c \in {TimeoutCaller, 1} : CancelUpdate(c)
    \/ \E c \in {TimeoutCaller, 1} : CancelSend(c)
    \/ WaitStarted
    \/ WaitPoll
    \/ WaitSleep
    \/ WaitRaise

C25_PollStopsAtAnyTerminal ==
    [][ (waitPc = "poll" /\ waitPc' # "poll" /\ execution.row
            /\ execution.status \in TerminalStatus)
        => (waitPc' = "done" /\ waitOutcome' = execution.status) ]_vars

\* ------------------------------------- ExecutionService._execute_agent
\* Command(command=...): status defaults to "pending", exit_code to None
NoCommand == [status |-> None, exit_code |-> None]
NewCommand == [status |-> "pending", exit_code |-> None]
NoResult == [exit_code |-> "unset"]

\* exit_code values of the command service's answer: command_result.get
\* gives None when the key is missing
ExitCodes == {"0", "1", None}

EsIdle ==
    /\ esPc = "none"
    /\ esStatus = "pending"
    /\ esCommand = NoCommand
    /\ esResult = NoResult
    /\ esSteps = <<>>
    /\ esPublished = <<>>

\* start_execution has created the execution Pending and scheduled the task
EsInit ==
    /\ esPc = "set_running"
    /\ esStatus = "pending"
    /\ esCommand = NoCommand
    /\ esResult = NoResult
    /\ esSteps = <<>>
    /\ esPublished = <<>>

outsideEs == <<agentVars, allowVars, cmdVars, listVars, getVars, hubVars,
               waitVars, valVars, mgrVars>>

\* the statement after an await: the next one, or the except block when the
\* awaited call raised
EsAfter(ok, next) == IF ok THEN next ELSE "set_failed"

\* update_status(status=RUNNING, started_at=...)
EsSetRunning(ok) ==
    /\ esPc = "set_running"
    /\ esStatus' = IF ok THEN "running" ELSE esStatus
    /\ esPc' = EsAfter(ok, "publish_running")
    /\ UNCHANGED <<outsideEs, esCommand, esResult, esSteps, esPublished>>

\* _publish_execution_update(execution)
EsPublishRunning(ok) ==
    /\ esPc = "publish_running"
    /\ esPublished' = IF ok THEN Append(esPublished, "status_update:" \o esStatus)
                      ELSE esPublished
    /\ esPc' = EsAfter(ok, "add_thought")
    /\ UNCHANGED <<outsideEs, esStatus, esCommand, esResult, esSteps>>

\* add_step(execution.id, thinking_step)
EsAddThought(ok) ==
    /\ esPc = "add_thought"
    /\ esSteps' = IF ok THEN Append(esSteps, "thought") ELSE esSteps
    /\ esPc' = EsAfter(ok, "publish_thought")
    /\ UNCHANGED <<outsideEs, esStatus, esCommand, esResult, esPublished>>

\* _publish_step_update(execution.id, thinking_step)
EsPublishThought(ok) ==
    /\ esPc = "publish_thought"
    /\ esPublished' = IF ok THEN Append(esPublished, "step_update:thought")
                      ELSE esPublished
    /\ esPc' = EsAfter(ok, "add_command")
    /\ UNCHANGED <<outsideEs, esStatus, esCommand, esResult, esSteps>>

\* add_command(execution.id, command)
EsAddCommand(ok) ==
    /\ esPc = "add_command"
    /\ esCommand' = IF ok THEN NewCommand ELSE esCommand
    /\ esPc' = EsAfter(ok, "publish_command")
    /\ UNCHANGED <<outsideEs, esStatus, esResult, esSteps, esPublished>>

\* _publish_command_update(execution.id, command)
EsPublishCommand(ok) ==
    /\ esPc = "publish_command"
    /\ esPublished' = IF ok THEN Append(esPublished, "command_update:pending")
                      ELSE esPublished
    /\ esPc' = EsAfter(ok, "execute_command")
    /\ UNCHANGED <<outsideEs, esStatus, esCommand, esResult, esSteps>>

\* command_result = await self.command_client.execute_command(...): the
\* answer of the command service, or an Exception (status other than 200,
\* aiohttp.ClientError)
EsExecuteCommand(ok, exit_code) ==
    /\ esPc = "execute_command"
    /\ esResult' = IF ok THEN [exit_code |-> exit_code] ELSE esResult
    /\ esPc' = EsAfter(ok, "update_command")
    /\ UNCHANGED <<outsideEs, esStatus, esCommand, esSteps, esPublished>>

\* update_command(..., status="completed", exit_code=command_result.get(...))
CommandStatusFor(exit_code) == "completed"

EsUpdateCommand(ok) ==
    /\ esPc = "update_command"
    /\ esCommand' = IF ok /\ esCommand # NoCommand
                    THEN [status |-> CommandStatusFor(esResult.exit_code),
                          exit_code |-> esResult.exit_code]
                    ELSE esCommand
    /\ esPc' = EsAfter(ok, "add_observation")
    /\ UNCHANGED <<outsideEs, esStatus, esResult, esSteps, esPublished>>

\* add_step(execution.id, observation_step)
EsAddObservation(ok) ==
    /\ esPc = "add_observation"
    /\ esSteps' = IF ok THEN Append(esSteps, "observation") ELSE esSteps
    /\ esPc' = EsAfter(ok, "publish_observation")
    /\ UNCHANGED <<outsideEs, esStatus, esCommand, esResult, esPublished>>

\* _publish_step_update(execution.id, observation_step)
EsPublishObservation(ok) ==
    /\ esPc = "publish_observation"
    /\ esPublished' = IF ok THEN Append(esPublished, "step_update:observation")
                      ELSE esPublished
    /\ esPc' = EsAfter(ok, "set_completed")
    /\ UNCHANGED <<outsideEs, esStatus, esCommand, esResult, esSteps>>

\* update_status(status=COMPLETED, output=..., completed_at=...)
EsSetCompleted(ok) ==
    /\ esPc = "set_completed"
    /\ esStatus' = IF ok THEN "completed" ELSE esStatus
    /\ esPc' = EsAfter(ok, "get_final")
    /\ UNCHANGED <<outsideEs, esCommand, esResult, esSteps, esPublished>>

\* execution = await get_by_id(execution.id)
EsGetFinal(ok) ==
    /\ esPc = "get_final"
    /\ esPc' = EsAfter(ok, "publish_final")
    /\ UNCHANGED <<outsideEs, esStatus, esCommand, esResult, esSteps, esPublished>>

\* _publish_execution_update(execution); the task ends
EsPublishFinal(ok) ==
    /\ esPc = "publish_final"
    /\ esPublished' = IF ok THEN Append(esPublished, "status_update:" \o esStatus)
                      ELSE esPublished
    /\ esPc' = EsAfter(ok, "done")
    /\ UNCHANGED <<outsideEs, esStatus, esCommand, esResult, esSteps>>

\* except Exception: update_status(status=FAILED, error=...); an exception
\* raised inside the except block ends the task
EsSetFailed(ok) ==
    /\ esPc = "set_failed"
    /\ esStatus' = IF ok THEN "failed" ELSE esStatus
    /\ esPc' = IF ok THEN "get_failed" ELSE "raised"
    /\ UNCHANGED <<outsideEs, esCommand, esResult, esSteps, esPublished>>

\* execution = await get_by_id(execution.id)
EsGetFailed(ok) ==
    /\ esPc = "get_failed"
    /\ esPc' = IF ok THEN "publish_failed" ELSE "raised"
    /\ UNCHANGED <<outsideEs, esStatus, esCommand, esResult, esSteps, esPublished>>

\* _publish_execution_update(execution); the task ends
EsPublishFailed(ok) ==
    /\ esPc = "publish_failed"
    /\ esPublished' = IF ok THEN Append(esPublished, "status_update:" \o esStatus)
                      ELSE esPublished
    /\ esPc' = IF ok THEN "done" ELSE "raised"
    /\ UNCHANGED <<outsideEs, esStatus, esCommand, esResult, esSteps>>

EsNext ==
    \/ \E ok \in BOOLEAN : EsSetRunning(ok)
    \/ \E ok \in BOOLEAN : EsPublishRunning(ok)
    \/ \E ok \in BOOLEAN : EsAddThought(ok)
    \/ \E ok \in BOOLEAN : EsPublishThought(ok)
    \/ \E ok \in BOOLEAN : EsAddCommand(ok)
    \/ \E ok \in BOOLEAN : EsPublishCommand(ok)
    \/ \E ok \in BOOLEAN : \E exit_code \in ExitCodes :
           EsExecuteCommand(ok, exit_code)
    \/ \E ok \in BOOLEAN : EsUpdateCommand(ok)
    \/ \E ok \in BOOLEAN : EsAddObservation(ok)
    \/ \E ok \in BOOLEAN : EsPublishObservation(ok)
    \/ \E ok \in BOOLEAN : EsSetCompleted(ok)
    \/ \E ok \in BOOLEAN : EsGetFinal(ok)
    \/ \E ok \in BOOLEAN : EsPublishFinal(ok)
    \/ \E ok \in BOOLEAN : EsSetFailed(ok)
    \/ \E ok \in BOOLEAN : EsGetFailed(ok)
    \/ \E ok \in BOOLEAN : EsPublishFailed(ok)

EsEnded == esPc \in {"done", "raised"}

\* C24: the status recorded for the command ExecutionService._execute_agent
\* runs is Completed only if the exit code of its result is 0, and once the
\* task has ended the record of a command that exited non-zero says Failed.
C24_CommandStatusFollowsExitCode ==
    /\ esCommand.status = "completed" => esResult.exit_code = "0"
    /\ (EsEnded /\ esCommand # NoCommand /\ esResult.exit_code = "1")
           => esCommand.status = "failed"

\* ------------------------------------ CommandAgent._validate_command
MaxValidations == 2
MaxAllowedCommands == 1

\* what command_client.validate_command meets at the command service: the
\* "valid" field the service gives for this command (fixed), and whether the
\* request is answered with status 200 ("up"), with another status, or finds
\* no connection
ServiceLinks == {"up", "status_error", "unreachable"}
ServiceStates == [valid : BOOLEAN, link : ServiceLinks]

\* CommandClient.validate_command: the parsed answer, or an Exception for a
\* status other than 200 and for aiohttp.ClientError
ValidateAnswer(service) ==
    [raised |-> service.link # "up", valid |-> service.valid]

\* result.get("valid", False), and False from the except block
ServiceVerdict(service) ==
    LET result == ValidateAnswer(service)
    IN IF result.raised THEN FALSE ELSE result.valid

\* CommandAgent._validate_command(command) under permissions
\* (execute_commands, allowed_commands) with the command service in state
\* service
_validate_command(cmd, execute, allowed, service) ==
    IF ~execute THEN FALSE
    ELSE IF ~_can_execute_command(cmd, execute, allowed) THEN FALSE
    ELSE ServiceVerdict(service)

ValIdle ==
    /\ valCommand = <<>>
    /\ valExecute = TRUE
    /\ valAllowed = <<>>
    /\ commandService = [valid |-> TRUE, link |-> "up"]
    /\ valVerdicts = <<>>

ValInit ==
    /\ valCommand \in CommandTexts
    /\ valExecute \in BOOLEAN
    /\ valAllowed \in PatternLists(MaxAllowedCommands)
    /\ commandService \in ServiceStates
    /\ valVerdicts = <<>>

outsideVal == <<agentVars, allowVars, cmdVars, listVars, getVars, hubVars,
                waitVars, esVars, mgrVars>>

\* one call of _validate_command(valCommand)
ValidateCall ==
    /\ Len(valVerdicts) < MaxValidations
    /\ valVerdicts' =
          Append(valVerdicts,
                 Verdict(_validate_command(valCommand, valExecute, valAllowed,
                                           commandService)))
    /\ UNCHANGED <<outsideVal, valCommand, valExecute, valAllowed, commandService>>

\* the command service goes down, fails or comes back
ServiceChanges(link) ==
    /\ link # commandService.link
    /\ commandService' = [commandService EXCEPT !.link = link]
    /\ UNCHANGED <<outsideVal, valCommand, valExecute, valAllowed, valVerdicts>>

ValNext ==
    \/ ValidateCall
    \/ \E link \in ServiceLinks : ServiceChanges(link)

MaxConnections == 3
MaxExecutions == 2
MaxDisconnects == 2

ConnectionIds == 1..MaxConnections
ExecutionIds == 1..MaxExecutions
NoConnection == 0

\* ConnectionManager.__init__: both dicts empty
MgrInit ==
    /\ active_connections = {}
    /\ execution_connections = [e \in ExecutionIds |-> NoConnection]
    /\ disconnectLog = [c \in ConnectionIds |-> <<>>]
    /\ disconnectRaised = FALSE

MgrIdle == MgrInit

outsideMgr == <<agentVars, allowVars, cmdVars, listVars, getVars, hubVars,
                waitVars, esVars, valVars>>

\* dict.pop(key): KeyError when the key is missing
DictPopRaises(keys, key) == key \notin keys

\* variant: every registered execution is collected
ToRemove_All(execs, connection_id) ==
    {e \in ExecutionIds : execs[e] # NoConnection}

\* to_remove: the execution ids whose conn_id == connection_id
ToRemove(execs, connection_id) ==
    {e \in ExecutionIds : execs[e] = connection_id}

\* ConnectionManager.disconnect(connection_id) on the dicts (active, execs):
\* the dicts it leaves and whether a pop raised
disconnect(active, execs, connection_id) ==
    IF connection_id \in active
    THEN LET to_remove == ToRemove(execs, connection_id)
         IN [active |-> active \ {connection_id},
             execs |-> [e \in ExecutionIds |->
                          IF e \in to_remove THEN NoConnection ELSE execs[e]],
             removed |-> Cardinality(to_remove),
             raised |-> \/ DictPopRaises(active, connection_id)
                        \/ \E e \in to_remove :
                              DictPopRaises({x \in ExecutionIds :
                                               execs[x] # NoConnection}, e)]
    ELSE [active |-> active, execs |-> execs, removed |-> 0, raised |-> FALSE]

\* manager.connect(connection_id, websocket)
MgrConnect(c) ==
    /\ active_connections' = active_connections \cup {c}
    /\ UNCHANGED <<outsideMgr, execution_connections, disconnectLog,
                   disconnectRaised>>

\* handle_execute: manager.register_execution(str(execution.id),
\* connection_id) for a new execution, by the handler of a connected socket
MgrRegisterExecution(e, c) ==
    /\ c \in active_connections
    /\ execution_connections[e] = NoConnection
    /\ execution_connections' = [execution_connections EXCEPT ![e] = c]
    /\ UNCHANGED <<outsideMgr, active_connections, disconnectLog,
                   disconnectRaised>>

\* manager.disconnect(connection_id)
MgrDisconnect(c) ==
    /\ Len(disconnectLog[c]) < MaxDisconnects
    /\ LET result == disconnect(active_connections, execution_connections, c)
       IN /\ active_connections' = result.active
          /\ execution_connections' = result.execs
          /\ disconnectLog' = [disconnectLog EXCEPT
                                  ![c] = Append(@, result.removed)]
          /\ disconnectRaised' = (disconnectRaised \/ result.raised)
    /\ UNCHANGED outsideMgr

\* stream_execution_updates, finally: pop the execution's entry if present
MgrStreamCleanup(e) ==
    /\ execution_connections[e] # NoConnection
    /\ execution_connections' = [execution_connections EXCEPT ![e] = NoConnection]
    /\ UNCHANGED <<outsideMgr, active_connections, disconnectLog,
                   disconnectRaised>>

MgrNext ==
    \/ \E c \in ConnectionIds : MgrConnect(c)
    \/ \E e \in ExecutionIds, c \in ConnectionIds : MgrRegisterExecution(e, c)
    \/ \E c \in ConnectionIds : MgrDisconnect(c)
    \/ \E e \in ExecutionIds : MgrStreamCleanup(e)

\* C30: disconnect of a registered connection removes that connection and
\* exactly the execution registrations mapped to it and leaves the rest as
\* it is; disconnect of a connection that is not registered changes
\* nothing; a second disconnect changes nothing more; no call raises.
C30_DisconnectIdempotentLocal ==
    /\ ~disconnectRaised
    /\ \A c \in ConnectionIds :
          LET once == disconnect(active_connections, execution_connections, c)
              twice == disconnect(once.active, once.execs, c)
          IN /\ ~once.raised /\ ~twice.raised
             /\ once.active = active_connections \ {c}
             /\ c \in active_connections =>
                    \A e \in ExecutionIds :
                        once.execs[e] =
                            IF execution_connections[e] = c THEN NoConnection
                            ELSE execution_connections[e]
             /\ c \notin active_connections =>
                    once.execs = execution_connections
             /\ twice.active = once.active /\ twice.execs = once.execs

\* C30 witness: a connection was disconnected twice, the first call removed
\* its execution registration, the second removed nothing, and another
\* connection is still registered with its execution.
C30_Witness ==
    \E c, d \in ConnectionIds :
        /\ c # d
        /\ disconnectLog[c] = <<1, 0>>
        /\ c \notin active_connections
        /\ d \in active_connections
        /\ \E e \in ExecutionIds : execution_connections[e] = d

MoreIdle == WaitIdle /\ EsIdle /\ ValIdle /\ MgrIdle

ExtraIdle == ListIdle /\ GetIdle /\ HubIdle /\ MoreIdle

\* first whitespace-delimited token of a command text, <<>> if it has none
BaseCommand(text) == IF Split(text) = <<>> THEN <<>> ELSE Split(text)[1]

\* C11: _is_command_allowed returns True for every command when the
\* patterns are ["*"], and False for every command when they are empty
C11_WildcardAllowsEmptyDenies ==
    ListChecked =>
        /\ (allowed_patterns = << <<"*">> >> => listVerdict.tool_fn = "True")
        /\ (allowed_patterns = <<>> => listVerdict.tool_fn = "False")

C11_Witness ==
    /\ ListChecked
    /\ allowed_patterns = << <<"*">> >>
    /\ toolCommand = <<"a", " ", "a">>
    /\ listVerdict.tool_fn = "True"

\* C12: with execute_commands true and an empty allowed_commands list every
\* command is denied: _can_execute_command returns False and the allow-list
\* step of CommandTool._arun does not let the command proceed
C12_EmptyListDeniesAll ==
    (ListChecked /\ execute_commands /\ allowed_patterns = <<>>) =>
        /\ listVerdict.agent = "False"
        /\ listVerdict.arun # "proceeds"

\* C13: two command texts with the same base command (first
\* whitespace-delimited token) get the same verdict from _is_command_allowed
\* and from _can_execute_command under the same list
C13_VerdictDependsOnBaseOnly ==
    ListChecked =>
        \A other \in CommandTexts :
            BaseCommand(other) = BaseCommand(toolCommand) =>
                /\ Verdict(_is_command_allowed(other, allowed_patterns))
                       = listVerdict.tool_fn
                /\ Verdict(_can_execute_command(other, execute_commands,
                                                allowed_patterns))
                       = listVerdict.agent

AgentIdle ==
    /\ AgentInit
    /\ agentType = "command"
    /\ permExecute = TRUE

Init == AgentInit /\ AllowIdle /\ CmdIdle /\ ExtraIdle

Spec == Init /\ [][Next]_vars

WaitSpecInit ==
    /\ AgentInit /\ AllowIdle /\ CmdIdle /\ ListIdle /\ GetIdle /\ HubIdle
    /\ WaitInit /\ EsIdle /\ ValIdle /\ MgrIdle

EsSpecInit ==
    /\ AgentIdle /\ AllowIdle /\ CmdIdle /\ ListIdle /\ GetIdle /\ HubIdle
    /\ WaitIdle /\ EsInit /\ ValIdle /\ MgrIdle

ValSpecInit ==
    /\ AgentIdle /\ AllowIdle /\ CmdIdle /\ ListIdle /\ GetIdle /\ HubIdle
    /\ WaitIdle /\ EsIdle /\ ValInit /\ MgrIdle

MgrSpecInit ==
    /\ AgentIdle /\ AllowIdle /\ CmdIdle /\ ListIdle /\ GetIdle /\ HubIdle
    /\ WaitIdle /\ EsIdle /\ ValIdle /\ MgrInit

MgrSpec == MgrSpecInit /\ [][MgrNext]_vars

ValSpec == ValSpecInit /\ [][ValNext]_vars

EsSpec == EsSpecInit /\ [][EsNext]_vars

WaitSpec == WaitSpecInit /\ [][WaitNext]_vars

AllowSpecInit == AllowInit /\ AgentIdle /\ CmdIdle /\ ExtraIdle

AllowSpec == AllowSpecInit /\ [][CheckCommand]_vars

ListSpecInit ==
    /\ ListInit /\ GetIdle /\ HubIdle /\ AgentIdle /\ AllowIdle /\ CmdIdle
    /\ MoreIdle

ListSpec == ListSpecInit /\ [][CheckAllowList]_vars

HubSpecInit ==
    /\ HubInit /\ ListIdle /\ GetIdle /\ AgentIdle /\ AllowIdle /\ CmdIdle
    /\ MoreIdle

HubSpec == HubSpecInit /\ [][HubNext]_vars

\* the same with a concurrent cancel_execution call
HubCancelNext ==
    \/ HubNext
    \/ HubCancelGet
    \/ HubCancelUpdate
    \/ HubCancelSend
    \/ HubCancelNone

HubCancelSpec == HubSpecInit /\ [][HubCancelNext]_vars

\* the event loop runs execute_agent whenever it can continue; nothing is
\* assumed of the websocket clients or of cancel requests
HubFairSpec == HubSpec /\ WF_vars(HubRunStep)

CmdInit == CmdIdle /\ AllowIdle /\ AgentIdle /\ ExtraIdle

CmdNext ==
    \/ \E cmd \in Requests : ExecuteCommand(cmd)
    \/ ThreadMakedirs
    \/ ThreadPublishStart
    \/ \E spawned \in BOOLEAN : ThreadPopen(spawned)
    \/ ThreadRegister
    \/ ThreadCheckTimeout
    \/ ThreadPublishTimeout
    \/ ThreadPoll
    \/ \E stderr \in {"", "stderr"} : ThreadWriteFiles(stderr)
    \/ ThreadPublishResult
    \/ \E decodes \in BOOLEAN : ThreadReadline(decodes)
    \/ ThreadPublishProgress
    \/ ThreadCleanupCheck
    \/ ThreadCleanupDel
    \/ ThreadExceptPublish
    \/ ThreadExceptCheck
    \/ ThreadExceptDel
    \/ ProcWrite
    \/ \E code \in {0, 1} : ProcExit(code)
    \/ Tick
    \/ \E c \in CsCancellers : CsCancelCheck(c)
    \/ \E c \in CsCancellers : CsCancelKill(c)
    \/ \E c \in CsCancellers : CsCancelPublish(c)
    \/ \E c \in CsCancellers : CsCancelDel(c)

CmdSpec == CmdInit /\ [][CmdNext]_vars

\* the service with clients that also poll GET /api/execution/<id>
CmdGetNext ==
    \/ CmdNext
    \/ GetCheck
    \/ GetLookup
    \/ GetFiles

CmdGetSpec == CmdInit /\ [][CmdGetNext]_vars

\* the operating system schedules the execution thread and the request
\* handlers, and time passes; the child process owes nothing
CmdFairSpec ==
    /\ CmdSpec
    /\ WF_vars(ThreadStep)
    /\ WF_vars(CsCancelStep)
    /\ WF_vars(Tick)

\* ------------------------------------- properties, command-execution service
ThreadLooping == threadPc \in {"check_timeout", "poll", "readline", "publish_progress"}

\* C8: when the time limit has expired with the process still running, the
\* execution thread eventually terminates with the process no longer
\* running; it never stays blocked.
C8_TimeoutTerminates ==
    (ThreadLooping /\ process = "running" /\ now - start_time > MAX_EXECUTION_TIME)
        ~> (threadPc \in {"done", "crashed"} /\ process # "running")

\* C9: a command that is_command_allowed rejects is answered 403 and has no
\* thread, no process, no active_executions entry and no published status.
C9_DeniedSpawnsNothing ==
    (response # None /\ ~is_command_allowed(request, config)) =>
        /\ response = "403"
        /\ threadPc = "none"
        /\ process = "none"
        /\ ~active_executions
        /\ published = <<>>

\* C9 witness: a command with an allowed base command and a path outside the
\* allowed paths was posted and refused.
C9_Witness ==
    /\ response = "403"
    /\ request = <<"a", " ", "/", ".">>

\* the whitespace-delimited token of text at positions i..j
IsToken(text, i, j) ==
    /\ 1 <= i /\ i <= j /\ j <= Len(text)
    /\ \A k \in i..j : text[k] # " "
    /\ i = 1 \/ text[i - 1] = " "
    /\ j = Len(text) \/ text[j + 1] = " "

\* ... and it is not the first token
IsArgument(text, i, j) ==
    /\ IsToken(text, i, j)
    /\ \E k \in 1..(i - 1) : text[k] # " "

LooksLikePath(tok) ==
    \/ tok[1] = "/"
    \/ Len(tok) >= 2 /\ tok[1] = "." /\ tok[2] = "/"
    \/ Len(tok) >= 3 /\ tok[1] = "." /\ tok[2] = "." /\ tok[3] = "/"

OutsidePathArgument(text, cfg) ==
    \E i \in 1..Len(text), j \in 1..Len(text) :
        /\ IsArgument(text, i, j)
        /\ LooksLikePath(SubSeq(text, i, j))
        /\ \A allowed_path \in cfg.paths :
               ~StartsWith(SubSeq(text, i, j), allowed_path)

\* C10: a command with an argument token that starts with '/', './' or '../'
\* and has no allowed path as a prefix is denied, whatever its base command.
C10_OutsidePathDenied ==
    (verdict # None /\ OutsidePathArgument(command, config)) => verdict = "False"

\* C10 witness: an allowed base command with a ../ argument was checked and
\* denied.
C10_Witness ==
    /\ verdict = "False"
    /\ command = <<"a", " ", ".", ".", "/", "a">>
    /\ config = [commands |-> {<<"a">>}, paths |-> {<<"/", "a">>}]

\* C14: once a cancel has answered 200, every later GET reports 'canceled'
\* or 'failed', never 'completed' or 'running'
C14_AfterCancelNeverCompleted ==
    (getAfterCancel /\ getStatus # None) =>
        getStatus \in {"canceled", "cancelled", "failed"}

\* C15: GET reports 'completed' only for a process that has exited with
\* exit code 0
C15_CompletedOnlyAfterExitZero ==
    getStatus = "completed" => process = "exit0"

\* a step that executes `del active_executions[execution_id]`
DelStep ==
    \/ threadPc \in {"cleanup_del", "except_del"} /\ threadPc' # threadPc
    \/ \E c \in CsCancellers : csCancelPc[c] = "del" /\ csCancelPc'[c] = "done"

\* C16: under every interleaving of the execution thread and the cancel
\* requests the entry is removed exactly once: every del finds the entry
\* present, so neither the thread nor a cancel request fails with KeyError
C16_RemovedOnceWithoutError ==
    [][DelStep => active_executions]_vars

TerminalPublished == {"completed", "failed", "failed:timeout", "cancelled"}

\* C17: at most one terminal status is published for the execution and no
\* status is published after it
C17_OneTerminalPublish ==
    \A i \in 1..Len(published) :
        published[i] \in TerminalPublished => i = Len(published)

\* ---------------------------------------- properties, execution streaming
\* the queue events among the messages a handler sent to its client
FromQueue(w) == SelectSeq(forwarded[w], LAMBDA m : m.n > 0)

\* q is a run of consecutive send_execution_event calls, in call order
IsCallSegment(q) ==
    \A i \in 1..Len(q) :
        /\ q[i].n \in 1..Len(calls)
        /\ q[i] = calls[q[i].n]
        /\ i > 1 => q[i].n = q[i - 1].n + 1

\* q ends with the latest call, if it is not empty
EndsWithLatestCall(q) == q # <<>> => q[Len(q)].n = Len(calls)

IsPrefix(p, q) == Len(p) <= Len(q) /\ SubSeq(q, 1, Len(p)) = p

\* C18: every subscriber queue holds the events in the order of the
\* send_execution_event calls, without gap, up to the latest call while it
\* is registered, and the websocket loop forwards them to its client in
\* that order, none reordered and none twice
C18_FifoPerSubscriber ==
    \A w \in Sockets :
        /\ IsCallSegment(received[w])
        /\ w \in Registered => EndsWithLatestCall(received[w])
        /\ IsPrefix(FromQueue(w), received[w])
        /\ Len(FromQueue(w)) <= taken[w]

C18_Witness ==
    /\ \A w \in Sockets : Len(received[w]) >= 2
    /\ \E w \in Sockets : Len(FromQueue(w)) >= 2
    /\ \E w \in Sockets : Len(received[w]) > taken[w]

LoopEnded(w) ==
    /\ sockPc[w] = "closed"
    /\ forwarded[w] # <<>>
    /\ \/ forwarded[w][Len(forwarded[w])].type = "completion"
       \/ /\ taken[w] > 0
          /\ TakenEvent(w).type = None
          /\ Len(FromQueue(w)) = taken[w] - 1

\* the send_execution_event calls that carried a step, in call order
StepCalls == SelectSeq(calls, LAMBDA m : m.type = "step")

\* steps the client got from the replay of the stored history
ReplayedSteps(w) ==
    Len(SelectSeq(forwarded[w], LAMBDA m : m.n = 0 /\ m.type = "step"))

\* the client got the live event of the i-th step
GotLive(w, i) ==
    /\ i <= Len(StepCalls)
    /\ \E j \in 1..Len(forwarded[w]) : forwarded[w][j] = StepCalls[i]

\* how many times the client of handler w was sent the i-th step
TimesSeen(w, i) ==
    (IF i <= ReplayedSteps(w) THEN 1 ELSE 0) + (IF GotLive(w, i) THEN 1 ELSE 0)

\* C27: the client of a stream_execution handler of a streamed execution is
\* never sent a step twice (replay and live together), and when the
\* handler's loop has ended by itself the client has been sent every stored
\* step.
C27_EveryStepExactlyOnce ==
    hubStream =>
        \A w \in Sockets :
            /\ \A i \in 1..hubSteps : TimesSeen(w, i) <= 1
            /\ LoopEnded(w) => \A i \in 1..hubSteps : TimesSeen(w, i) >= 1

\* the handler has registered its queue and its loop has not ended
Connected(w) == sockPc[w] \in {"listening", "send", "check"}

\* C28: every send_execution_event call puts its event on the queue of every
\* handler that is connected, also when two handlers serve the same user and
\* also after one of them has ended.
C28_EveryConnectedClientGetsEvent ==
    [][ Len(calls') > Len(calls) =>
            \A w \in Sockets :
                Connected(w) =>
                    received'[w] = Append(received[w], calls'[Len(calls')]) ]_vars

Completions(w) ==
    Len(SelectSeq(forwarded[w], LAMBDA m : m.type = "completion"))

\* C29: when the loop of a handler has ended by itself and the execution is
\* terminal, its client has been sent exactly one completion message.
C29_OneCompletionMessage ==
    \A w \in Sockets :
        (LoopEnded(w) /\ hubStatus \in HubTerminal) => Completions(w) = 1

\* ------------------------------------------ properties, command permission
\* C20: for an agent whose permissions have execute_commands false the run
\* never calls the command service, neither validate_command nor
\* execute_command
C20_NoServiceCallsWithoutPermission ==
    ~permExecute => (serviceCalls = {} /\ ~cmdInFlight)

C20_Witness ==
    /\ ~permExecute
    /\ agentType = "command"
    /\ runPc = "done"
    /\ steps # <<>>
    /\ serviceCalls = {}

====
